---- MODULE Spec2Model ----
(***************************************************************************)
(* Live control protocol of godot-mcp.                                     *)
(*                                                                         *)
(* Agent: mcp_interaction_server.gd (src/unnamed/part_001), the TCP        *)
(* command server that runs inside the game: _process, _handle_command,    *)
(* _send_response, _send_response_raw and the _cmd_* handlers.             *)
(*                                                                         *)
(* Controller: src/src/index.ts, the request correlator (sendGameCommand)  *)
(* and the socket handlers installed by connectToGame.                     *)
(***************************************************************************)
EXTENDS Integers, Sequences, FiniteSets, TLC

(***************************************************************************)
(* Bounds of the model.                                                    *)
(***************************************************************************)
\* lines the clients of the agent send in one behaviour
MaxLines == 2
\* client connections made to the agent in one behaviour
MaxConn == 1
\* largest "frames" argument of a wait / frames awaited by eval code
MaxFrames == 1
\* calls of sendGameCommand
MaxCalls == 2
\* connections made to the agent in one behaviour in which a new connection
\* may arrive while another is served
MaxPeers == 2
\* lines sent in such a behaviour
MaxPeerLines == 2
\* calls of run_project in one behaviour
MaxRuns == 2
\* calls of run_project in a behaviour in which game commands are sent too
MaxSendRuns == 1
\* projects that are run
MaxProjects == 2

(***************************************************************************)
(* Program constants.                                                      *)
(***************************************************************************)
\* _client = null
NoClient == 0
\* controller: gameConnection.socket is null
NoSocket == 0
\* controller: gameConnection.pendingResolve is null
NoPending == 0
\* controller: activeProcess is null
NoProcess == 0
\* controller: gameConnection.projectPath is null
NoProject == 0
\* controller: const maxAttempts of connectToGame
maxAttempts == 10

\* match arms of _handle_command that use await
AsyncCommands == {"screenshot", "click", "key_press", "eval", "wait"}
\* match arms of _handle_command that are plain calls
SyncCommands ==
    {"mouse_move", "get_ui_elements", "get_scene_tree", "get_property",
     "set_property", "call_method", "get_node_info", "instantiate_scene",
     "remove_node", "change_scene", "pause", "get_performance",
     "connect_signal", "disconnect_signal", "emit_signal", "play_animation",
     "tween_property", "get_nodes_in_group", "find_nodes_by_class",
     "reparent_node"}
Catalog == AsyncCommands \cup SyncCommands

(***************************************************************************)
(* Bytes and lines.  A JSON text is carried as two bytes, its head and its *)
(* tail, so that it can be cut in the middle; "\n" ends a line and " " is  *)
(* whitespace.  A JSON field that is absent, or present with a JSON type   *)
(* other than the one the code declares, is written ABSENT / WRONGTYPE.    *)
(***************************************************************************)
ABSENT == "<absent>"
WRONGTYPE == "<wrong type>"
NL == [part |-> "\n"]
SP == [part |-> " "]

HeadByte(m) == [part |-> "H", m |-> m]
TailByte(m) == [part |-> "T", m |-> m]
\* the bytes of one JSON text followed by "\n"
Encode(m) == <<HeadByte(m), TailByte(m), NL>>

\* A character outside ASCII in a JSON string of m: one character of a
\* String, two bytes in UTF-8, its leading and its continuation byte
Char(m) == [part |-> "U", m |-> m]
LeadByte(m) == [part |-> "U1", m |-> m]
ContByte(m) == [part |-> "U2", m |-> m]
\* U+FFFD, what a decoder puts in the place of bytes that are not UTF-8
REPLACEMENT == [part |-> "U+FFFD"]

\* String.to_utf8_buffer() / socket.write(string)
RECURSIVE to_utf8_buffer(_)
to_utf8_buffer(s) ==
    IF s = <<>> THEN <<>>
    ELSE IF Head(s).part = "U"
         THEN <<LeadByte(Head(s).m), ContByte(Head(s).m)>> \o to_utf8_buffer(Tail(s))
         ELSE <<Head(s)>> \o to_utf8_buffer(Tail(s))

\* PackedByteArray.get_string_from_utf8(): a leading byte with its
\* continuation byte is one character; a leading byte that ends the array,
\* and a continuation byte without its leading byte, become U+FFFD
RECURSIVE get_string_from_utf8(_)
get_string_from_utf8(bytes) ==
    IF bytes = <<>> THEN <<>>
    ELSE IF Head(bytes).part = "U1"
         THEN IF Len(bytes) > 1 /\ bytes[2] = ContByte(Head(bytes).m)
              THEN <<Char(Head(bytes).m)>> \o get_string_from_utf8(Tail(Tail(bytes)))
              ELSE <<REPLACEMENT>> \o get_string_from_utf8(Tail(bytes))
         ELSE IF Head(bytes).part = "U2"
              THEN <<REPLACEMENT>> \o get_string_from_utf8(Tail(bytes))
              ELSE <<Head(bytes)>> \o get_string_from_utf8(Tail(bytes))

\* Buffer.toString(): the same decoding, incomplete sequences become U+FFFD
toString(data) == get_string_from_utf8(data)

Msg(id, kind, command, params, arg, frames) ==
    [id |-> id, kind |-> kind, command |-> command, params |-> params,
     arg |-> arg, frames |-> frames]

\* the lines a client may send, without their serial number
Templates ==
    {<<"badjson", ABSENT, ABSENT, "ok", 0>>,
     <<"nonobject", ABSENT, ABSENT, "ok", 0>>,
     <<"object", ABSENT, "dict", "ok", 0>>,
     <<"object", ABSENT, WRONGTYPE, "ok", 0>>,
     <<"object", WRONGTYPE, "dict", "ok", 0>>,
     <<"object", "Wait", ABSENT, "ok", 1>>,
     <<"object", "get_property", "dict", "ok", 0>>,
     <<"object", "screenshot", ABSENT, "ok", 0>>,
     <<"object", "key_press", "dict", "badtype", 0>>}
    \cup {<<"object", "wait", "dict", "ok", MaxFrames>>}

Lines(id) == {Msg(id, t[1], t[2], t[3], t[4], t[5]) : t \in Templates}

(***************************************************************************)
(* State.                                                                  *)
(***************************************************************************)
VARIABLES
    _busy,      \* agent: var _busy
    _client,    \* agent: var _client, NoClient or the connection it serves
    _buffer,    \* agent: var _buffer, bytes read and not yet cut into lines
    susp,       \* agent: handlers suspended at "await get_tree().process_frame"
    out,        \* out[c]: response lines the agent has put on connection c
    wire,       \* wire[c]: bytes sent on connection c and not yet read by the agent
    conns,      \* conns[c]: "unused", "open", "closed" (by its client), "evicted"
    backlog,    \* connections waiting in the TCPServer for take_connection
    nsent,      \* lines sent so far (the serial number of the last one)
    trace,      \* history of what _handle_command and the handlers did
    ran,        \* history: Len(trace) when the latest run of _process that
                \* dispatched a line began
    _server,    \* agent: var _server, "listening" or "null"
    socket,     \* controller: gameConnection.socket, NoSocket or a connection
    connected,  \* controller: gameConnection.connected
    responseBuffer, \* controller: gameConnection.responseBuffer
    pendingResolve, \* controller: gameConnection.pendingResolve, NoPending or
                \* the call of sendGameCommand whose closure it holds
    calls,      \* controller: the calls of sendGameCommand, their promise and timer
    sock,       \* controller: sock[c], the net.Socket of connection c: "none",
                \* "open", "destroyed" (close event due), "closed" (event handled)
    rxpos,      \* rxpos[c]: bytes of out[c] handed to the data handler so far
    serial,     \* history: no call was issued while another was pending
    activeProcess,  \* controller: activeProcess, NoProcess or a run
    projectPath,    \* controller: gameConnection.projectPath
    artifact,   \* artifact[p]: project p holds the autoload entry and the script
    runs,       \* runs[n]: the n-th call of run_project: its project, the
                \* process it spawned, the agent in it, its call of connectToGame
    shutdown,   \* controller: cleanup has run
    rxlines,    \* history: the lines the data handler of the controller cut
                \* from responseBuffer and found non-empty
    rxwire,     \* bytes a peer has sent to the controller, not yet delivered
    input,      \* the arguments drawn for the function under check
    output,     \* what the function returned for them
    signals     \* game: the signal connections of the scene tree, each
                \* <<node, signal, target, method>>

agentVars == <<_busy, _client, _buffer, susp, out, wire, conns, backlog, nsent, trace, ran>>
ctlVars == <<socket, connected, responseBuffer, pendingResolve, calls, sock, rxpos, serial>>
runVars == <<activeProcess, projectPath, artifact, runs, shutdown>>
fnVars == <<rxwire, input, output>>
vars == <<agentVars, _server, ctlVars, runVars, rxlines, fnVars, signals>>

Conn == 1..MaxPeers

\* no function is under check; the function has not been applied yet
NoInput == [op |-> "none"]
NoOutput == [type |-> "none"]

\* one event of the history: what happened, for which line (its serial
\* number), the busy flag and the client at that point, and a detail of the
\* event
Ev(e, id, busy, client, x) ==
    [e |-> e, id |-> id, busy |-> busy, client |-> client, x |-> x]

\* a response dictionary, tagged with the line it answers
Resp(id, kind, msg) == [re |-> id, kind |-> kind, msg |-> msg]

(***************************************************************************)
(* The agent as a record a = [busy, client, buffer, out, susp, trace], so  *)
(* that _handle_command can be applied to each line of a chunk in turn.    *)
(***************************************************************************)
Agent == [busy |-> _busy, client |-> _client, buffer |-> _buffer,
          out |-> out, susp |-> susp, trace |-> trace, signals |-> signals]

Note(a, e, id, x) ==
    [a EXCEPT !.trace = Append(@, Ev(e, id, a.busy, a.client, x))]

\* _send_response_raw: put one line on the client, or nothing when there is none
_send_response_raw(a, data) ==
    IF a.client = NoClient
    THEN a
    ELSE [a EXCEPT !.out[a.client] = Append(@, data)]

\* variant: with no client the function returns before it clears the flag
SendResponseNeedsClient(a, data) ==
    IF a.client = NoClient
    THEN Note(a, "done", data.re, a.client)
    ELSE _send_response_raw(Note([a EXCEPT !.busy = FALSE], "done", data.re, a.client), data)

\* variant: the response is sent and the flag is left as it is
SendResponseKeepsBusy(a, data) ==
    _send_response_raw(Note(a, "done", data.re, a.client), data)

\* _send_response: clear the busy flag, then _send_response_raw
_send_response(a, data) ==
    _send_response_raw(Note([a EXCEPT !.busy = FALSE], "done", data.re, a.client), data)

\* a runtime error of GDScript: the running function is abandoned where it
\* is, nothing after the faulting statement runs, the caller goes on
Fault(a, m) == Note(a, "fault", m.id, 0)

\* "await get_tree().process_frame": the handler is parked until the signal
Await(a, m, left) == [a EXCEPT !.susp = Append(@, [m |-> m, left |-> left])]

(***************************************************************************)
(* Handlers, up to their first await.  m.arg tells what the parameters     *)
(* are: "ok", "err" (a required parameter is missing, a node, method or    *)
(* key is not found, the code does not compile), "badtype" (a parameter    *)
(* whose JSON type the typed local of the handler does not accept).        *)
(***************************************************************************)
_cmd_screenshot(a, m) == Await(a, m, 1)

\* Input.parse_input_event(event), Input.action_press / action_release: what
\* is injected ("mouse", "key", "action") and whether it is a press
parse_input_event(a, m, device, pressed) ==
    Note(a, IF pressed THEN "press" ELSE "release", m.id, device)

\* the press is injected, the release follows after one frame
_cmd_click(a, m) ==
    IF m.arg = "badtype" THEN Fault(a, m)
    ELSE Await(parse_input_event(a, m, "mouse", TRUE), m, 1)

\* params.get("action", ""), params.get("key", ""): which of the two the
\* command gives, "action", "key" or "none"; a command that says nothing
\* about it gives a key
KeyBy(m) == IF "by" \in DOMAIN m THEN m.by ELSE "key"

\* params.get("pressed", true)
KeyPressed(m) == IF "pressed" \in DOMAIN m THEN m.pressed ELSE TRUE

\* variant: the response is written before the frame wait
KeyPressAnswersBeforeRelease(a, m) ==
    CASE m.arg = "badtype" -> Fault(a, m)
      [] KeyBy(m) = "action" ->
             _send_response(parse_input_event(a, m, "action", KeyPressed(m)),
                            Resp(m.id, "success", "key_press"))
      [] KeyBy(m) = "none" ->
             _send_response(a, Resp(m.id, "error", "Must provide 'key' or 'action' parameter"))
      [] m.arg = "err" -> _send_response(a, Resp(m.id, "error", "Unknown key"))
      [] KeyPressed(m) ->
             Await(_send_response(parse_input_event(a, m, "key", TRUE),
                                  Resp(m.id, "success", "key_press")), m, 1)
      [] OTHER -> _send_response(parse_input_event(a, m, "key", FALSE),
                                 Resp(m.id, "success", "key_press"))

_cmd_key_press(a, m) ==
    CASE m.arg = "badtype" -> Fault(a, m)
      [] KeyBy(m) = "action" ->
             _send_response(parse_input_event(a, m, "action", KeyPressed(m)),
                            Resp(m.id, "success", "key_press"))
      [] KeyBy(m) = "none" ->
             _send_response(a, Resp(m.id, "error", "Must provide 'key' or 'action' parameter"))
      [] m.arg = "err" -> _send_response(a, Resp(m.id, "error", "Unknown key"))
      [] KeyPressed(m) -> Await(parse_input_event(a, m, "key", TRUE), m, 1)
      [] OTHER -> _send_response(parse_input_event(a, m, "key", FALSE),
                                 Resp(m.id, "success", "key_press"))

_cmd_eval(a, m) ==
    CASE m.arg = "badtype" -> Fault(a, m)
      [] m.arg = "err" -> _send_response(a, Resp(m.id, "error", "No code provided"))
      [] m.frames > 0 -> Await(a, m, m.frames)
      [] OTHER -> _send_response(a, Resp(m.id, "success", "eval"))

\* {"success": true, "waited_frames": frames}
WaitedFrames(m) ==
    [re |-> m.id, kind |-> "success", msg |-> "wait", waited_frames |-> m.frames]

\* variant: the handler acknowledges the command before it suspends
WaitAnswersBeforeSuspending(a, m) ==
    CASE m.arg = "badtype" -> Fault(a, m)
      [] m.frames > 0 ->
             Await(_send_response_raw(a, Resp(m.id, "success", "waiting")), m, m.frames)
      [] OTHER -> _send_response(a, WaitedFrames(m))

\* "for i in frames: await ..." runs no iteration when frames <= 0
_cmd_wait(a, m) ==
    CASE m.arg = "badtype" -> Fault(a, m)
      [] m.frames > 0 -> Await(a, m, m.frames)
      [] OTHER -> _send_response(a, WaitedFrames(m))

\* the scene tree of the game: the paths of its nodes and, for each node,
\* the names of its methods
Scene == [p \in {"/root/Enemy"} |-> {"take_damage"}]

\* variant: the method is looked up before the node
CallMethodLooksUpMethodFirst(a, m) ==
    IF m.node_path = "" \/ m.method = ""
    THEN _send_response(a, Resp(m.id, "error", "node_path and method are required"))
    ELSE IF m.node_path \notin DOMAIN Scene \/ m.method \notin Scene[m.node_path]
    THEN _send_response(a, [re |-> m.id, kind |-> "error", msg |-> "Method not found",
                            method |-> m.method, node_path |-> m.node_path])
    ELSE _send_response(Note(a, "callv", m.id, <<m.node_path, m.method>>),
                        Resp(m.id, "success", "call_method"))

\* _cmd_call_method; m.node_path and m.method are the two parameters, "" when
\* left out; the node and method names of the error strings are kept as fields
_cmd_call_method(a, m) ==
    IF m.node_path = "" \/ m.method = ""
    THEN _send_response(a, Resp(m.id, "error", "node_path and method are required"))
    ELSE IF m.node_path \notin DOMAIN Scene
    THEN _send_response(a, [re |-> m.id, kind |-> "error", msg |-> "Node not found",
                            node_path |-> m.node_path])
    ELSE IF m.method \notin Scene[m.node_path]
    THEN _send_response(a, [re |-> m.id, kind |-> "error", msg |-> "Method not found",
                            method |-> m.method, node_path |-> m.node_path])
    ELSE _send_response(Note(a, "callv", m.id, <<m.node_path, m.method>>),
                        Resp(m.id, "success", "call_method"))

\* the signals of each node of the scene tree
Signals == [p \in DOMAIN Scene |-> {"died"}]

\* Callable(target, method) connected to signal_name of the node
Connection(m) == <<m.node_path, m.signal_name, m.target_path, m.method>>

\* the checks _cmd_connect_signal and _cmd_disconnect_signal share: the four
\* parameters are given, the source node and the target node are found
SignalNodes(a, m) ==
    IF m.node_path = "" \/ m.signal_name = "" \/ m.target_path = "" \/ m.method = ""
    THEN Resp(m.id, "error", "node_path, signal_name, target_path, and method are required")
    ELSE IF m.node_path \notin DOMAIN Scene
    THEN [re |-> m.id, kind |-> "error", msg |-> "Source node not found",
          node_path |-> m.node_path]
    ELSE IF m.target_path \notin DOMAIN Scene
    THEN [re |-> m.id, kind |-> "error", msg |-> "Target node not found",
          target_path |-> m.target_path]
    ELSE Resp(m.id, "ok", "")

\* variant: a connection that exists already is reported as made
ConnectSignalSkipsConnectedCheck(a, m) ==
    LET a0 == Note(a, "signals", m.id, a.signals) IN
    IF SignalNodes(a, m).kind = "error"
    THEN _send_response(a0, SignalNodes(a, m))
    ELSE IF m.signal_name \notin Signals[m.node_path]
    THEN _send_response(a0, [re |-> m.id, kind |-> "error", msg |-> "Signal not found",
                             signal_name |-> m.signal_name, node_path |-> m.node_path])
    ELSE IF m.method \notin Scene[m.target_path]
    THEN _send_response(a0, [re |-> m.id, kind |-> "error", msg |-> "Method not found",
                             method |-> m.method, target_path |-> m.target_path])
    ELSE _send_response([a0 EXCEPT !.signals = @ \cup {Connection(m)}],
                        Resp(m.id, "success", "connect_signal"))

\* _cmd_connect_signal; the connection set the handler finds is noted in the
\* history
_cmd_connect_signal(a, m) ==
    LET a0 == Note(a, "signals", m.id, a.signals) IN
    IF SignalNodes(a, m).kind = "error"
    THEN _send_response(a0, SignalNodes(a, m))
    ELSE IF m.signal_name \notin Signals[m.node_path]
    THEN _send_response(a0, [re |-> m.id, kind |-> "error", msg |-> "Signal not found",
                             signal_name |-> m.signal_name, node_path |-> m.node_path])
    ELSE IF m.method \notin Scene[m.target_path]
    THEN _send_response(a0, [re |-> m.id, kind |-> "error", msg |-> "Method not found",
                             method |-> m.method, target_path |-> m.target_path])
    ELSE IF Connection(m) \in a.signals
    THEN _send_response(a0, Resp(m.id, "error", "Signal already connected"))
    ELSE _send_response([a0 EXCEPT !.signals = @ \cup {Connection(m)}],
                        Resp(m.id, "success", "connect_signal"))

\* _cmd_disconnect_signal: is_connected is false for a signal or a method
\* that does not exist
_cmd_disconnect_signal(a, m) ==
    LET a0 == Note(a, "signals", m.id, a.signals) IN
    IF SignalNodes(a, m).kind = "error"
    THEN _send_response(a0, SignalNodes(a, m))
    ELSE IF Connection(m) \notin a.signals
    THEN _send_response(a0, Resp(m.id, "error", "Signal is not connected"))
    ELSE _send_response([a0 EXCEPT !.signals = @ \ {Connection(m)}],
                        Resp(m.id, "success", "disconnect_signal"))

\* the handlers that never await
_cmd_sync(a, m) ==
    CASE m.arg = "badtype" -> Fault(a, m)
      [] m.arg = "err" -> _send_response(a, Resp(m.id, "error", m.command))
      [] OTHER -> _send_response(a, Resp(m.id, "success", m.command))

\* what a handler does after its last await
Finish(a, m) ==
    CASE m.command = "screenshot" /\ m.arg = "err" ->
             _send_response(a, Resp(m.id, "error", "Failed to capture screenshot"))
      [] m.command = "click" ->
             _send_response(parse_input_event(a, m, "mouse", FALSE),
                            Resp(m.id, "success", "click"))
      [] m.command = "key_press" ->
             _send_response(parse_input_event(a, m, "key", FALSE),
                            Resp(m.id, "success", "key_press"))
      [] m.command = "wait" -> _send_response(a, WaitedFrames(m))
      [] OTHER -> _send_response(a, Resp(m.id, "success", m.command))

\* variant: one frame is awaited, whatever the count
ResumeAwaitsOneFrame(a, co) ==
    Finish(Note(a, "frame", co.m.id, co.left), co.m)

\* a handler resumed by process_frame (noted in the history with the frames
\* it had left to wait): wait again, or finish and respond
Resume(a, co) ==
    IF co.left > 1
    THEN Await(Note(a, "frame", co.m.id, co.left), co.m, co.left - 1)
    ELSE Finish(Note(a, "frame", co.m.id, co.left), co.m)

(***************************************************************************)
(* _handle_command                                                         *)
(***************************************************************************)
\* the serial number of the JSON text a line starts with (history only)
LineId(line) == line[1].m.id

\* json.parse(json_str) == OK
JsonOk(line) ==
    /\ Len(line) >= 2
    /\ line[1] = HeadByte(line[1].m)
    /\ line[Len(line)] = TailByte(line[1].m)
    /\ \A i \in 2..(Len(line) - 1) : line[i].part \in {"U", "U+FFFD"}
    /\ line[1].m.kind # "badjson"

\* the match statement
Dispatch(a, command, m) ==
    CASE command = "screenshot" -> _cmd_screenshot(Note(a, "start", m.id, 0), m)
      [] command = "click" -> _cmd_click(Note(a, "start", m.id, 0), m)
      [] command = "key_press" -> _cmd_key_press(Note(a, "start", m.id, 0), m)
      [] command = "eval" -> _cmd_eval(Note(a, "start", m.id, 0), m)
      [] command = "wait" -> _cmd_wait(Note(a, "start", m.id, 0), m)
      [] command = "call_method" /\ "method" \in DOMAIN m ->
             _cmd_call_method(Note(a, "start", m.id, 0), m)
      [] command = "connect_signal" /\ "signal_name" \in DOMAIN m ->
             _cmd_connect_signal(Note(a, "start", m.id, 0), m)
      [] command = "disconnect_signal" /\ "signal_name" \in DOMAIN m ->
             _cmd_disconnect_signal(Note(a, "start", m.id, 0), m)
      [] command \in SyncCommands -> _cmd_sync(Note(a, "start", m.id, 0), m)
      [] OTHER -> _send_response(a, Resp(m.id, "error", "Unknown command"))

\* variant: a line that is not JSON costs the client its connection
AcceptedDropsClient(a, line) ==
    IF ~JsonOk(line)
    THEN [_send_response(a, Resp(LineId(line), "error", "Invalid JSON"))
             EXCEPT !.client = NoClient, !.buffer = <<>>]
    ELSE LET m == line[1].m IN
         IF m.kind # "object"
         THEN _send_response(a, Resp(m.id, "error", "Expected JSON object"))
         ELSE IF m.command = WRONGTYPE \/ m.params = WRONGTYPE
              THEN Fault(a, m)
              ELSE Dispatch(a, IF m.command = ABSENT THEN "" ELSE m.command, m)

\* what follows "_busy = true"
Accepted(a, line) ==
    IF ~JsonOk(line)
    THEN _send_response(a, Resp(LineId(line), "error", "Invalid JSON"))
    ELSE LET m == line[1].m IN
         IF m.kind # "object"
         THEN _send_response(a, Resp(m.id, "error", "Expected JSON object"))
         ELSE IF m.command = WRONGTYPE \/ m.params = WRONGTYPE
              THEN Fault(a, m)
              ELSE Dispatch(a, IF m.command = ABSENT THEN "" ELSE m.command, m)

\* variant: the busy rejection goes through _send_response
HandleCommandBusyCleared(a, line) ==
    IF a.busy
    THEN Note(_send_response(a, Resp(LineId(line), "error", "busy")),
              "busy", LineId(line), 0)
    ELSE Accepted([a EXCEPT !.busy = TRUE], line)

\* variant: no busy guard
HandleCommandUnguarded(a, line) ==
    Accepted([a EXCEPT !.busy = TRUE], line)

_handle_command(a, line) ==
    IF a.busy
    THEN Note(_send_response_raw(a, Resp(LineId(line), "error", "busy")),
              "busy", LineId(line), 0)
    ELSE Accepted([a EXCEPT !.busy = TRUE], line)

(***************************************************************************)
(* _process: the frame reader                                              *)
(***************************************************************************)
\* String.find("\n"): index of the first newline, 0 when there is none
RECURSIVE FindNL(_, _)
FindNL(buf, i) ==
    IF i > Len(buf) THEN 0
    ELSE IF buf[i] = NL THEN i ELSE FindNL(buf, i + 1)

\* String.strip_edges()
RECURSIVE StripLeft(_)
StripLeft(s) == IF s # <<>> /\ s[1] = SP THEN StripLeft(Tail(s)) ELSE s
RECURSIVE StripRight(_)
StripRight(s) ==
    IF s # <<>> /\ s[Len(s)] = SP THEN StripRight(SubSeq(s, 1, Len(s) - 1)) ELSE s
strip_edges(s) == StripRight(StripLeft(s))

\* the while loop of _process: cut the buffer into lines, dispatch each
RECURSIVE ReadLines(_)
ReadLines(a) ==
    LET newline_pos == FindNL(a.buffer, 1)
        line == strip_edges(SubSeq(a.buffer, 1, newline_pos - 1))
        a1 == [a EXCEPT !.buffer = SubSeq(@, newline_pos + 1, Len(@))]
    IN  IF newline_pos = 0 THEN a
        ELSE IF Len(line) > 0
             THEN ReadLines(_handle_command(Note(a1, "line", LineId(line), line), line))
             ELSE ReadLines(a1)

\* the process_frame signal resumes the parked handlers in order
RECURSIVE ResumeAll(_, _)
ResumeAll(a, cs) ==
    IF cs = <<>> THEN a ELSE ResumeAll(Resume(a, Head(cs)), Tail(cs))

Store(a) ==
    /\ _busy' = a.busy
    /\ _client' = a.client
    /\ _buffer' = a.buffer
    /\ out' = a.out
    /\ susp' = a.susp
    /\ trace' = a.trace
    /\ signals' = a.signals
    /\ ran' = IF \E i \in (Len(trace) + 1)..Len(a.trace) : a.trace[i].e = "line"
              THEN Len(trace) ELSE ran

(***************************************************************************)
(* Actions of the agent                                                    *)
(***************************************************************************)
\* variant: the client that is replaced is left connected
ReplacedStaysConnected(cn, c) == cn

\* _client.disconnect_from_host() on the client that is replaced
disconnect_from_host(cn, c) == [cn EXCEPT ![c] = "evicted"]

\* variant: a new client starts with the busy flag cleared
AcceptClearsBusy(a, c) == [a EXCEPT !.client = c, !.buffer = <<>>, !.busy = FALSE]

\* variant: what was read from the replaced client stays in the buffer
AcceptKeepsBuffer(a, c) == [a EXCEPT !.client = c]

\* the new connection becomes the client, the buffer is emptied
Accept(a, c) == [a EXCEPT !.client = c, !.buffer = <<>>]

\* one run of _process(_delta)
Process ==
    /\ _server = "listening"
    /\ UNCHANGED <<_server, rxlines, fnVars, ctlVars, runVars>>
    /\ LET available == backlog # <<>>
           evict == available /\ _client # NoClient
           a0 == IF available
                 THEN Accept(Agent, Head(backlog))
                 ELSE Agent
           c == a0.client
           conns1 == IF evict THEN disconnect_from_host(conns, _client) ELSE conns
           wire1 == IF evict THEN [wire EXCEPT ![_client] = <<>>] ELSE wire
       IN  /\ backlog' = IF available THEN Tail(backlog) ELSE backlog
           /\ conns' = conns1
           /\ nsent' = nsent
           /\ IF c = NoClient
              THEN Store(a0) /\ wire' = wire1
              ELSE IF conns1[c] = "closed" /\ wire1[c] = <<>>
                   THEN Store([a0 EXCEPT !.client = NoClient, !.buffer = <<>>])
                        /\ wire' = wire1
                   ELSE \E k \in 0..Len(wire1[c]) :
                           /\ wire' = [wire1 EXCEPT ![c] = SubSeq(@, k + 1, Len(@))]
                           /\ IF k > 0
                              THEN Store(ReadLines(
                                       [a0 EXCEPT !.buffer = @ \o
                                           get_string_from_utf8(SubSeq(wire1[c], 1, k))]))
                              ELSE Store(a0)

\* get_tree().process_frame is emitted
ProcessFrame ==
    /\ _server = "listening"
    /\ UNCHANGED <<_server, rxlines, fnVars, ctlVars, runVars>>
    /\ Store(ResumeAll([Agent EXCEPT !.susp = <<>>], susp))
    /\ UNCHANGED <<wire, conns, backlog, nsent>>

(***************************************************************************)
(* Actions of the clients of the agent                                     *)
(***************************************************************************)
\* the next connection is made, the n-th at most
Connect(n) ==
    \E c \in 1..n :
        /\ conns[c] = "unused"
        /\ \A d \in Conn : d < c => conns[d] # "unused"
        /\ conns' = [conns EXCEPT ![c] = "open"]
        /\ backlog' = Append(backlog, c)
        /\ UNCHANGED <<_busy, _client, _buffer, susp, out, wire, nsent, trace, ran>>
        /\ UNCHANGED <<_server, rxlines, fnVars, signals, ctlVars, runVars>>

ClientConnect == Connect(MaxConn)

\* a client sends the next line, the n-th at most, made from a template of T
Send(n, T) ==
    \E c \in Conn : \E m \in {Msg(nsent + 1, t[1], t[2], t[3], t[4], t[5]) : t \in T} :
        /\ nsent < n
        /\ conns[c] = "open"
        /\ wire' = [wire EXCEPT ![c] = @ \o Encode(m)]
        /\ nsent' = nsent + 1
        /\ UNCHANGED <<_busy, _client, _buffer, susp, out, conns, backlog, trace, ran>>
        /\ UNCHANGED <<_server, rxlines, fnVars, signals, ctlVars, runVars>>

ClientSend == Send(MaxLines, Templates)

ClientClose ==
    \E c \in Conn :
        /\ conns[c] = "open"
        /\ conns' = [conns EXCEPT ![c] = "closed"]
        /\ UNCHANGED <<_busy, _client, _buffer, susp, out, wire, backlog, nsent, trace, ran>>
        /\ UNCHANGED <<_server, rxlines, fnVars, signals, ctlVars, runVars>>

Init ==
    /\ _busy = FALSE
    /\ _client = NoClient
    /\ _buffer = <<>>
    /\ susp = <<>>
    /\ out = [c \in Conn |-> <<>>]
    /\ wire = [c \in Conn |-> <<>>]
    /\ conns = [c \in Conn |-> "unused"]
    /\ backlog = <<>>
    /\ nsent = 0
    /\ trace = <<>>
    /\ ran = 0
    /\ _server = "listening"
    /\ socket = NoSocket
    /\ connected = FALSE
    /\ responseBuffer = <<>>
    /\ pendingResolve = NoPending
    /\ calls = <<>>
    /\ sock = [c \in Conn |-> "none"]
    /\ rxpos = [c \in Conn |-> 0]
    /\ serial = TRUE
    /\ activeProcess = NoProcess
    /\ projectPath = NoProject
    /\ artifact = [p \in 1..MaxProjects |-> FALSE]
    /\ runs = <<>>
    /\ shutdown = FALSE
    /\ signals = {}
    /\ rxlines = <<>>
    /\ rxwire = <<>>
    /\ input = NoInput
    /\ output = NoOutput

Next ==
    \/ Process
    \/ ProcessFrame
    \/ ClientConnect
    \/ ClientSend
    \/ ClientClose

Spec == Init /\ [][Next]_vars

\* clients that connect while another client is served
PeerConnect == Connect(MaxPeers)

\* the lines such clients send: a command that suspends, one that does not,
\* a line that is not JSON, a command whose handler stops on a runtime error
PeerTemplates ==
    {<<"object", "wait", "dict", "ok", MaxFrames>>,
     <<"object", "get_property", "dict", "ok", 0>>,
     <<"badjson", ABSENT, ABSENT, "ok", 0>>,
     <<"object", "key_press", "dict", "badtype", 0>>}

PeerSend == Send(MaxPeerLines, PeerTemplates)

EvictNext ==
    \/ Process
    \/ ProcessFrame
    \/ PeerConnect
    \/ PeerSend
    \/ ClientClose

EvictSpec == Init /\ [][EvictNext]_vars

\* the engine's main loop emits process_frame every frame, paused or not
FairSpec == Spec /\ WF_vars(ProcessFrame)

(***************************************************************************)
(* The controller: gameConnection, connectToGame, disconnectFromGame and   *)
(* sendGameCommand of index.ts, joined to the agent above through the      *)
(* connections: sendGameCommand writes on wire[c], the data handler of     *)
(* socket c is given the bytes of out[c].                                  *)
(***************************************************************************)
\* the command the controller is made to send, and its frames: the handler
\* answers after MaxFrames frames
CtlCommands == {<<"wait", MaxFrames>>}

\* what a promise is settled with; re is the line an agent's response answers
NoResult == [re |-> 0, kind |-> "none", msg |-> ""]
ConnectionClosed == [re |-> 0, kind |-> "error", msg |-> "Connection closed"]
Disconnected == [re |-> 0, kind |-> "error", msg |-> "Disconnected"]
TimedOut == [re |-> 0, kind |-> "thrown", msg |-> "timed out"]
NotConnected == [re |-> 0, kind |-> "thrown", msg |-> "Not connected"]

\* one call of sendGameCommand: its promise (state, result), its timer, and,
\* as history, how many times resolve or reject was invoked on the promise
\* and which event settled it
Call(m, state, result, timer, attempts, by) ==
    [m |-> m, state |-> state, result |-> result, timer |-> timer,
     attempts |-> attempts, by |-> by]

\* resolve(...) or reject(...) of a promise: only the first one counts
Settle(r, state, result, by) ==
    IF r.state = "pending"
    THEN [r EXCEPT !.state = state, !.result = result, !.by = by,
                   !.attempts = @ + 1]
    ELSE [r EXCEPT !.attempts = @ + 1]

\* clearTimeout(timeout)
clearTimeout(r) == [r EXCEPT !.timer = IF @ = "armed" THEN "cleared" ELSE @]

\* the closure stored in pendingResolve by call id
Resolver(cs, id, response, by) ==
    [cs EXCEPT ![id] = Settle(clearTimeout(@), "resolved", response, by)]

\* the controller as a record g = [buf, pending, calls, lines]
Ctl == [buf |-> responseBuffer, pending |-> pendingResolve, calls |-> calls,
        lines |-> rxlines]

\* variant: the timer rejects and leaves pendingResolve as it is
TimeoutKeepsPending(g, id) ==
    [g EXCEPT !.calls[id] = Settle([@ EXCEPT !.timer = "fired"],
                                   "rejected", TimedOut, "timeout")]

\* variant: the timer also drops what has been received of the next line
TimeoutResetsBuffer(g, id) ==
    [g EXCEPT !.pending = NoPending,
              !.buf = <<>>,
              !.calls[id] = Settle([@ EXCEPT !.timer = "fired"],
                                   "rejected", TimedOut, "timeout")]

\* variant: the timer empties the slot and does not reject
TimeoutForgetsReject(g, id) ==
    [g EXCEPT !.pending = NoPending, !.calls[id].timer = "fired"]

\* the callback of setTimeout in sendGameCommand
TimeoutFired(g, id) ==
    [g EXCEPT !.pending = NoPending,
              !.calls[id] = Settle([@ EXCEPT !.timer = "fired"],
                                   "rejected", TimedOut, "timeout")]

\* variant: the close handler resolves the pending call and keeps it stored
CloseKeepsPending(g) ==
    IF g.pending # NoPending
    THEN [g EXCEPT !.calls = Resolver(@, g.pending, ConnectionClosed, "close")]
    ELSE g

\* the body of the close handler that deals with pendingResolve
CloseHandler(g) ==
    IF g.pending # NoPending
    THEN [g EXCEPT !.calls = Resolver(@, g.pending, ConnectionClosed, "close"),
                   !.pending = NoPending]
    ELSE g

\* variant: the closure is stored before the connected check
ThrowAfterInstall(g, id, m) ==
    [g EXCEPT !.pending = id,
              !.calls = Append(@, Call(m, "rejected", NotConnected, "none", 1, "throw"))]

\* sendGameCommand when the connected check fails: the call throws
ThrowNotConnected(g, id, m) ==
    [g EXCEPT !.calls = Append(@, Call(m, "rejected", NotConnected, "none", 1, "throw"))]

\* String.prototype.trim()
trim(s) == StripRight(StripLeft(s))

\* JSON.parse(line) does not throw
ParseOk(line) ==
    /\ Len(line) >= 2
    /\ line[1] = HeadByte(line[1].m)
    /\ line[Len(line)] = TailByte(line[1].m)
    /\ \A i \in 2..(Len(line) - 1) : line[i].part \in {"U", "U+FFFD"}

\* history: the line answers a command whose call has timed out already
Late(g, line) ==
    /\ line[1].m.re \in DOMAIN g.calls
    /\ g.calls[line[1].m.re].timer = "fired"

\* variant: the resolver is taken out of the slot before the line is looked at
RECURSIVE OnDataTakesResolverFirst(_)
OnDataTakesResolverFirst(g) ==
    LET newlinePos == FindNL(g.buf, 1)
        line == trim(SubSeq(g.buf, 1, newlinePos - 1))
        g1 == [g EXCEPT !.buf = SubSeq(@, newlinePos + 1, Len(@)),
                        !.lines = IF Len(line) > 0 THEN Append(@, line) ELSE @]
    IN  IF newlinePos = 0 THEN g
        ELSE IF g1.pending # NoPending
             THEN IF Len(line) > 0 /\ ParseOk(line)
                  THEN OnDataTakesResolverFirst([g1 EXCEPT
                           !.pending = NoPending,
                           !.calls = Resolver(@, g1.pending, line[1].m, "response")])
                  ELSE OnDataTakesResolverFirst([g1 EXCEPT !.pending = NoPending])
             ELSE OnDataTakesResolverFirst(g1)

\* variant: a line that finds no pending request is left in the buffer
RECURSIVE OnDataKeepsUnclaimed(_)
OnDataKeepsUnclaimed(g) ==
    LET newlinePos == FindNL(g.buf, 1)
        line == trim(SubSeq(g.buf, 1, newlinePos - 1))
        g1 == [g EXCEPT !.buf = SubSeq(@, newlinePos + 1, Len(@)),
                        !.lines = IF Len(line) > 0 THEN Append(@, line) ELSE @]
    IN  IF newlinePos = 0 THEN g
        ELSE IF Len(line) > 0 /\ g1.pending = NoPending THEN g
        ELSE IF Len(line) > 0 /\ ParseOk(line)
             THEN OnDataKeepsUnclaimed([g1 EXCEPT
                      !.pending = NoPending,
                      !.calls = Resolver(@, g1.pending, line[1].m, "response")])
             ELSE OnDataKeepsUnclaimed(g1)

\* variant: a line that JSON.parse rejects settles the pending call
RECURSIVE OnDataSettlesOnBadLine(_)
OnDataSettlesOnBadLine(g) ==
    LET newlinePos == FindNL(g.buf, 1)
        line == trim(SubSeq(g.buf, 1, newlinePos - 1))
        g1 == [g EXCEPT !.buf = SubSeq(@, newlinePos + 1, Len(@)),
                        !.lines = IF Len(line) > 0 THEN Append(@, line) ELSE @]
    IN  IF newlinePos = 0 THEN g
        ELSE IF Len(line) > 0 /\ g1.pending # NoPending
             THEN OnDataSettlesOnBadLine([g1 EXCEPT
                      !.pending = NoPending,
                      !.calls = Resolver(@, g1.pending,
                                         IF ParseOk(line) THEN line[1].m
                                         ELSE Resp(0, "error", "parse"),
                                         "response")])
             ELSE OnDataSettlesOnBadLine(g1)

\* the while loop of the data handler
RECURSIVE OnDataLines(_)
OnDataLines(g) ==
    LET newlinePos == FindNL(g.buf, 1)
        line == trim(SubSeq(g.buf, 1, newlinePos - 1))
        g1 == [g EXCEPT !.buf = SubSeq(@, newlinePos + 1, Len(@)),
                        !.lines = IF Len(line) > 0 THEN Append(@, line) ELSE @]
    IN  IF newlinePos = 0 THEN g
        ELSE IF Len(line) > 0 /\ g1.pending # NoPending /\ ParseOk(line)
             THEN OnDataLines([g1 EXCEPT
                      !.pending = NoPending,
                      !.calls = Resolver(@, g1.pending, line[1].m,
                                         IF Late(g1, line) THEN "late response"
                                                           ELSE "response")])
             ELSE OnDataLines(g1)

\* the bytes the agent has put on a connection: each response then "\n"
RECURSIVE PutData(_)
PutData(rs) == IF rs = <<>> THEN <<>> ELSE Encode(Head(rs)) \o PutData(Tail(rs))

StoreCtl(g) ==
    /\ responseBuffer' = g.buf
    /\ pendingResolve' = g.pending
    /\ calls' = g.calls
    /\ rxlines' = g.lines

\* connection c is made and the callback of createConnection runs
Connected(c) ==
    /\ conns[c] = "unused"
    /\ \A d \in Conn : d < c => conns[d] # "unused"
    /\ conns' = [conns EXCEPT ![c] = "open"]
    /\ backlog' = Append(backlog, c)
    /\ sock' = [sock EXCEPT ![c] = "open"]
    /\ socket' = c
    /\ connected' = TRUE
    /\ responseBuffer' = <<>>

\* the callback of createConnection in connectToGame: the connection is
\* made, the n-th at most
ConnectToGame(n) ==
    \E c \in 1..n :
        /\ _server = "listening"
        /\ Connected(c)
        /\ UNCHANGED <<_busy, _client, _buffer, susp, out, wire, nsent, trace, ran>>
        /\ UNCHANGED <<_server, rxlines, fnVars, signals, pendingResolve, calls, rxpos, serial, runVars>>

connectToGame == ConnectToGame(MaxConn)

\* the body of disconnectFromGame
Disconnect ==
    /\ IF socket # NoSocket
       THEN /\ sock' = [sock EXCEPT ![socket] = "destroyed"]
            /\ conns' = [conns EXCEPT ![socket] = IF @ = "open" THEN "closed" ELSE @]
       ELSE UNCHANGED <<sock, conns>>
    /\ socket' = NoSocket
    /\ connected' = FALSE
    /\ responseBuffer' = <<>>
    /\ IF pendingResolve # NoPending
       THEN calls' = Resolver(calls, pendingResolve, Disconnected, "close")
       ELSE calls' = calls
    /\ pendingResolve' = NoPending

\* disconnectFromGame, when there is anything for it to do
disconnectFromGame ==
    /\ \/ socket # NoSocket
       \/ connected
       \/ responseBuffer # <<>>
       \/ pendingResolve # NoPending
    /\ Disconnect
    /\ UNCHANGED <<_busy, _client, _buffer, susp, out, wire, backlog, nsent, trace, ran>>
    /\ UNCHANGED <<_server, rxlines, fnVars, signals, rxpos, serial, runVars>>

sendGameCommand ==
    \E t \in CtlCommands :
        LET id == Len(calls) + 1
            m == Msg(id, "object", t[1], "dict", "ok", t[2])
        IN  /\ Len(calls) < MaxCalls
            /\ IF ~connected \/ socket = NoSocket
               THEN /\ calls' = ThrowNotConnected(Ctl, id, m).calls
                    /\ pendingResolve' = ThrowNotConnected(Ctl, id, m).pending
                    /\ UNCHANGED <<wire, nsent, serial>>
               ELSE /\ calls' = Append(calls,
                                   Call(m, "pending", NoResult, "armed", 0, "none"))
                    /\ pendingResolve' = id
                    /\ wire' = IF conns[socket] = "open"
                               THEN [wire EXCEPT ![socket] = @ \o Encode(m)]
                               ELSE wire
                    /\ nsent' = id
                    /\ serial' = (serial /\ \A i \in DOMAIN calls :
                                                calls[i].state # "pending")
            /\ UNCHANGED <<_busy, _client, _buffer, susp, out, conns, backlog, trace, ran>>
            /\ UNCHANGED <<_server, rxlines, fnVars, signals, socket, connected, responseBuffer,
                           sock, rxpos, runVars>>

\* the timer of a call fires
OnTimeout ==
    \E id \in DOMAIN calls :
        /\ calls[id].timer = "armed"
        /\ StoreCtl(TimeoutFired(Ctl, id))
        /\ UNCHANGED <<agentVars, _server, fnVars, signals, socket, connected, sock, rxpos, serial, runVars>>

\* socket.on('data'): some of the bytes the agent put on the connection arrive
OnData ==
    \E c \in Conn : \E k \in 1..(Len(PutData(out[c])) - rxpos[c]) :
        /\ sock[c] = "open"
        /\ rxpos' = [rxpos EXCEPT ![c] = @ + k]
        /\ StoreCtl(OnDataLines([Ctl EXCEPT !.buf =
               @ \o toString(SubSeq(PutData(out[c]), rxpos[c] + 1, rxpos[c] + k))]))
        /\ UNCHANGED <<agentVars, _server, fnVars, signals, socket, connected, sock, serial, runVars>>

\* socket.on('close'): after destroy(), or after the agent closed its end:
\* when it quits or drops the client the connection may be reset, and what
\* the agent had sent and was not yet read is then lost
OnClose ==
    \E c \in Conn :
        /\ \/ sock[c] = "destroyed"
           \/ /\ sock[c] = "open"
              /\ conns[c] = "evicted"
        /\ sock' = [sock EXCEPT ![c] = "closed"]
        /\ connected' = FALSE
        /\ socket' = NoSocket
        /\ StoreCtl(CloseHandler(Ctl))
        /\ UNCHANGED <<agentVars, _server, fnVars, signals, rxpos, serial, runVars>>

\* the game quits: _exit_tree of the agent
_exit_tree ==
    /\ _server = "listening"
    /\ _server' = "null"
    /\ _client' = NoClient
    /\ backlog' = <<>>
    /\ conns' = [c \in Conn |->
                    IF c = _client \/ \E i \in DOMAIN backlog : backlog[i] = c
                    THEN "evicted" ELSE conns[c]]
    /\ wire' = [c \in Conn |->
                    IF c = _client \/ \E i \in DOMAIN backlog : backlog[i] = c
                    THEN <<>> ELSE wire[c]]
    /\ UNCHANGED <<_busy, _buffer, susp, out, nsent, trace, ran, ctlVars, runVars>>
    /\ UNCHANGED <<rxlines, fnVars, signals>>

CtlNext ==
    \/ Process
    \/ ProcessFrame
    \/ _exit_tree
    \/ connectToGame
    \/ disconnectFromGame
    \/ sendGameCommand
    \/ OnTimeout
    \/ OnData
    \/ OnClose

\* the controller and the agent of the game it runs
CtlSpec == Init /\ [][CtlNext]_vars

\* the event loop of the controller delivers the events of a socket: what the
\* peer sent is read, then the close of a socket that is closed is reported
CloseFairSpec == CtlSpec /\ WF_vars(OnData) /\ WF_vars(OnClose)

\* a timer that is armed and not cleared fires
TimerFairSpec == CtlSpec /\ WF_vars(OnTimeout)

(***************************************************************************)
(* The life of a run: run_project, stop_project and cleanup of index.ts,   *)
(* the exit and error events of the process a run spawned, the agent of    *)
(* that process taking the port, and connectToGame with its attempts.      *)
(***************************************************************************)
Projects == 1..MaxProjects

\* injectInteractionServer: the script is copied and the autoload entry added
injectInteractionServer(art, p) == [art EXCEPT ![p] = TRUE]

\* removeInteractionServer: the autoload entry and the script are removed
removeInteractionServer(art, p) == [art EXCEPT ![p] = FALSE]

\* process.kill() on the process of run n
kill(rs, n) == [rs EXCEPT ![n].process = IF @ = "running" THEN "killed" ELSE @]

\* a call of run_project: process is "running", "killed" (kill() was called),
\* "dead" (exit event due), "exited" (exit event handled), "failing" (it could
\* not be started, error event due) or "failed"; agent is "booting",
\* "listening", "unbound" (listen failed) or "gone"; loop is where its call of
\* connectToGame stands: "delay", "connecting", "retry", or how it returned:
\* "connected", "aborted", "exhausted"; attempt is the loop variable
Run(p, process) ==
    [project |-> p, process |-> process,
     agent |-> IF process = "running" THEN "booting" ELSE "gone",
     loop |-> "delay", attempt |-> 0]

RunIds == DOMAIN runs

\* the runs whose agent is bound to the port
Listening == {n \in RunIds : runs[n].agent = "listening"}

\* the tool run_project, for a project that exists: the limit-th call at
\* most; the projects are numbered in the order of their first run
RunProject(limit) ==
    \E p \in Projects : \E started \in {"running", "failing"} :
        LET n == Len(runs) + 1
            existing == activeProcess # NoProcess
            art1 == IF existing /\ projectPath # NoProject
                    THEN removeInteractionServer(artifact, projectPath)
                    ELSE artifact
            runs1 == IF existing THEN kill(runs, activeProcess) ELSE runs
        IN  /\ ~shutdown
            /\ Len(runs) < limit
            /\ \A q \in Projects : q < p => \E i \in RunIds : runs[i].project = q
            /\ IF existing
               THEN Disconnect
               ELSE UNCHANGED <<sock, conns, socket, connected, responseBuffer,
                                calls, pendingResolve>>
            /\ artifact' = injectInteractionServer(art1, p)
            /\ runs' = Append(runs1, Run(p, started))
            /\ activeProcess' = n
            /\ projectPath' = p
            /\ UNCHANGED <<_busy, _client, _buffer, susp, out, wire, backlog, nsent,
                           trace, ran, _server, rxlines, fnVars, signals, rxpos, serial, shutdown>>

handleRunProject == RunProject(MaxRuns)

\* the tool stop_project
handleStopProject ==
    /\ ~shutdown
    /\ activeProcess # NoProcess
    /\ Disconnect
    /\ runs' = kill(runs, activeProcess)
    /\ activeProcess' = NoProcess
    /\ artifact' = IF projectPath # NoProject
                   THEN removeInteractionServer(artifact, projectPath)
                   ELSE artifact
    /\ projectPath' = NoProject
    /\ UNCHANGED <<_busy, _client, _buffer, susp, out, wire, backlog, nsent,
                   trace, ran, _server, rxlines, fnVars, signals, rxpos, serial, shutdown>>

\* cleanup, on SIGINT
cleanup ==
    /\ ~shutdown
    /\ shutdown' = TRUE
    /\ Disconnect
    /\ artifact' = IF projectPath # NoProject
                   THEN removeInteractionServer(artifact, projectPath)
                   ELSE artifact
    /\ projectPath' = NoProject
    /\ runs' = IF activeProcess # NoProcess THEN kill(runs, activeProcess) ELSE runs
    /\ activeProcess' = NoProcess
    /\ UNCHANGED <<_busy, _client, _buffer, susp, out, wire, backlog, nsent,
                   trace, ran, _server, rxlines, fnVars, signals, rxpos, serial>>

\* _ready of the agent in the process of run n: listen succeeds when no other
\* process holds the port
AgentReady ==
    \E n \in RunIds :
        /\ runs[n].process \in {"running", "killed"}
        /\ runs[n].agent = "booting"
        /\ runs' = [runs EXCEPT ![n].agent = IF Listening = {} THEN "listening"
                                                               ELSE "unbound"]
        /\ UNCHANGED <<agentVars, _server, rxlines, fnVars, signals, ctlVars>>
        /\ UNCHANGED <<activeProcess, projectPath, artifact, shutdown>>

\* the process of run n ends, by itself or killed: its sockets are closed
ProcessEnds ==
    \E n \in RunIds :
        /\ runs[n].process \in {"running", "killed"}
        /\ runs' = [runs EXCEPT ![n].process = "dead", ![n].agent = "gone"]
        /\ conns' = IF n \in Listening
                    THEN [c \in Conn |-> IF conns[c] = "open" THEN "evicted"
                                                              ELSE conns[c]]
                    ELSE conns
        /\ UNCHANGED <<_busy, _client, _buffer, susp, out, wire, backlog, nsent,
                       trace, ran, _server, rxlines, fnVars, signals, ctlVars>>
        /\ UNCHANGED <<activeProcess, projectPath, artifact, shutdown>>

\* process.on('exit') of the process of run n
OnProcessExit ==
    \E n \in RunIds :
        /\ runs[n].process = "dead"
        /\ runs' = [runs EXCEPT ![n].process = "exited"]
        /\ Disconnect
        /\ artifact' = IF projectPath # NoProject
                       THEN removeInteractionServer(artifact, projectPath)
                       ELSE artifact
        /\ projectPath' = NoProject
        /\ activeProcess' = IF activeProcess = n THEN NoProcess ELSE activeProcess
        /\ UNCHANGED <<_busy, _client, _buffer, susp, out, wire, backlog, nsent,
                       trace, ran, _server, rxlines, fnVars, signals, rxpos, serial, shutdown>>

\* process.on('error') of the process of run n, which could not be started
OnProcessError ==
    \E n \in RunIds :
        /\ runs[n].process = "failing"
        /\ runs' = [runs EXCEPT ![n].process = "failed"]
        /\ activeProcess' = IF activeProcess = n THEN NoProcess ELSE activeProcess
        /\ UNCHANGED <<agentVars, _server, rxlines, fnVars, signals, ctlVars>>
        /\ UNCHANGED <<projectPath, artifact, shutdown>>

\* the test of the for loop of connectToGame
LoopTest(attempt) == attempt <= maxAttempts

\* connectToGame of run n after one of its delays: the test of the loop, the
\* check of activeProcess, and createConnection
Attempt ==
    \E n \in RunIds :
        LET attempt == IF runs[n].loop = "delay" THEN 1 ELSE runs[n].attempt + 1
        IN  /\ runs[n].loop \in {"delay", "retry"}
            /\ runs' = [runs EXCEPT
                   ![n].attempt = attempt,
                   ![n].loop = IF ~LoopTest(attempt) THEN "exhausted"
                               ELSE IF activeProcess = NoProcess THEN "aborted"
                               ELSE "connecting"]
            /\ UNCHANGED <<agentVars, _server, rxlines, fnVars, signals, ctlVars>>
            /\ UNCHANGED <<activeProcess, projectPath, artifact, shutdown>>

\* the attempt of run n connects: the callback of createConnection, resolve
ConnectOk ==
    \E n \in RunIds : \E c \in Conn :
        /\ runs[n].loop = "connecting"
        /\ Listening # {}
        /\ Connected(c)
        /\ runs' = [runs EXCEPT ![n].loop = "connected"]
        /\ UNCHANGED <<_busy, _client, _buffer, susp, out, wire, nsent, trace, ran>>
        /\ UNCHANGED <<_server, rxlines, fnVars, signals, pendingResolve, calls, rxpos, serial>>
        /\ UNCHANGED <<activeProcess, projectPath, artifact, shutdown>>

\* the attempt of run n fails: socket.on('error') rejects, the catch block
\* starts the retry delay.  Nothing listens, or no further connection is made
\* in this behaviour
ConnectFail ==
    \E n \in RunIds :
        /\ runs[n].loop = "connecting"
        /\ \/ Listening = {}
           \/ \A c \in Conn : conns[c] # "unused"
        /\ runs' = [runs EXCEPT ![n].loop = "retry"]
        /\ UNCHANGED <<agentVars, _server, rxlines, fnVars, signals, ctlVars>>
        /\ UNCHANGED <<activeProcess, projectPath, artifact, shutdown>>

RunNext ==
    \/ handleRunProject
    \/ handleStopProject
    \/ cleanup
    \/ AgentReady
    \/ ProcessEnds
    \/ OnProcessExit
    \/ OnProcessError
    \/ Attempt
    \/ ConnectOk
    \/ ConnectFail
    \/ OnClose

\* the controller and the processes it runs
RunSpec == Init /\ [][RunNext]_vars

\* the timers of connectToGame fire, and an attempt to connect succeeds or fails
LoopFairSpec == RunSpec /\ WF_vars(Attempt) /\ WF_vars(ConnectOk \/ ConnectFail)

\* a tool that calls sendGameCommand
GameTool == ~shutdown /\ sendGameCommand

RunAndSend == RunProject(MaxSendRuns)

RunSendNext ==
    \/ RunAndSend
    \/ handleStopProject
    \/ cleanup
    \/ AgentReady
    \/ ProcessEnds
    \/ OnProcessExit
    \/ OnProcessError
    \/ Attempt
    \/ ConnectOk
    \/ ConnectFail
    \/ GameTool
    \/ OnTimeout
    \/ OnClose

\* the controller, the process it runs and the commands it sends to it
RunSendSpec == Init /\ [][RunSendNext]_vars

(***************************************************************************)
(* Reading the history                                                     *)
(***************************************************************************)
LineIds == 1..MaxLines

\* positions of the events e of line id
At(e, id) == {i \in DOMAIN trace : trace[i].e = e /\ trace[i].id = id}

\* where the response lines that answer line id are: <<connection, index>>
Responses(id) ==
    {p \in UNION {{<<c, i>> : i \in DOMAIN out[c]} : c \in Conn} :
        out[p[1]][p[2]].re = id}

BusyResponses(id) == {p \in Responses(id) : out[p[1]][p[2]].msg = "busy"}

\* the handler of line id is parked at an await
Suspended(id) == \E k \in DOMAIN susp : susp[k].m.id = id

\* line id passed the busy guard of _handle_command
AcceptedLine(id) == \E i \in At("line", id) : ~trace[i].busy

\* the events of the latest run of _process that dispatched a line
LatestRun == (ran + 1)..Len(trace)

(***************************************************************************)
(* C1: a line that arrives while _busy is true gets exactly one response,  *)
(* the busy error; the flag is still true afterwards; the line is neither  *)
(* parsed nor handed to a handler.                                         *)
(***************************************************************************)
BusyRejects ==
    \A i \in DOMAIN trace :
        (trace[i].e = "line" /\ trace[i].busy) =>
            /\ i < Len(trace)
            /\ trace[i + 1].e = "busy"
            /\ trace[i + 1].id = trace[i].id
            /\ trace[i + 1].busy
            /\ \A j \in DOMAIN trace :
                  trace[j].id = trace[i].id => trace[j].e \in {"line", "busy"}
            /\ Cardinality(Responses(trace[i].id)) = 1
            /\ BusyResponses(trace[i].id) = Responses(trace[i].id)

\* a line has been dispatched while the flag was true
BusyRejectsWitness ==
    \E i \in DOMAIN trace : trace[i].e = "line" /\ trace[i].busy

(***************************************************************************)
(* C2: when a second command is rejected as busy while the handler of a    *)
(* first one is parked at a frame wait, the first still completes: it      *)
(* reaches _send_response with its own success or error response (put on   *)
(* the client connection the agent holds at that moment) and the busy flag *)
(* is false again.  Checked under FairSpec: frames keep coming.            *)
(***************************************************************************)
\* the handler of id is parked and a later line has been rejected as busy
RejectedWhileSuspended(id) ==
    /\ Suspended(id)
    /\ \E i \in At("start", id) :
          \E j \in DOMAIN trace : j > i /\ trace[j].e = "busy"

\* id went through _send_response: flag cleared, its own response on the client
Completed(id) ==
    \E i \in At("done", id) :
        /\ ~trace[i].busy
        /\ trace[i].x # NoClient =>
              /\ Cardinality(Responses(id)) = 1
              /\ BusyResponses(id) = {}
              /\ \A p \in Responses(id) : p[1] = trace[i].x

FirstStillCompletes ==
    \A id \in LineIds : RejectedWhileSuspended(id) ~> (Completed(id) /\ ~_busy)

\* a handler that was parked while another line was rejected has completed
FirstStillCompletesWitness ==
    \E id \in LineIds :
        /\ Completed(id)
        /\ \E i \in At("start", id) : \E k \in At("done", id) :
              \E j \in DOMAIN trace : i < j /\ j < k /\ trace[j].e = "busy"

(***************************************************************************)
(* C3, as claimed: of two lines dispatched in one run of _process, the     *)
(* second is always answered with the busy error.                          *)
(***************************************************************************)
\* the line is a command of the catalog
CatalogCommand(line) ==
    JsonOk(line) /\ line[1].m.kind = "object" /\ line[1].m.command \in Catalog

FaultIsAnswered ==
    /\ \A i \in DOMAIN trace :
          trace[i].e = "fault" =>
              \E p \in Responses(trace[i].id) : out[p[1]][p[2]].kind = "error"
    /\ _busy => susp # <<>>

(***************************************************************************)
(* C5, as claimed: every dispatched line gets exactly one response line    *)
(* (none before its handler is through, when the handler is parked; lines  *)
(* whose response found no client connected are left out).                 *)
(***************************************************************************)
OneResponsePerLine ==
    \A i \in DOMAIN trace :
        trace[i].e = "line" =>
            LET id == trace[i].id IN
            /\ Cardinality(Responses(id)) <= 1
            /\ ( /\ ~Suspended(id)
                 /\ \A k \in At("done", id) : trace[k].x # NoClient ) =>
                    Cardinality(Responses(id)) = 1

(***************************************************************************)
(* C6, as claimed: with the flag false, a line that is not valid JSON, is  *)
(* not a JSON object, has no command field or names no command of the      *)
(* catalog gets an error response, starts no handler, and the flag is      *)
(* false once it has been handled.                                         *)
(***************************************************************************)
\* a line that cannot be dispatched: invalid JSON, not an object, no command
\* field, or a command that is not in the catalog
Undispatchable(line) ==
    \/ ~JsonOk(line)
    \/ line[1].m.kind # "object"
    \/ line[1].m.command = ABSENT
    \/ line[1].m.command \notin (Catalog \cup {ABSENT, WRONGTYPE})

InvalidLineIsAnswered ==
    \A i \in DOMAIN trace :
        (trace[i].e = "line" /\ ~trace[i].busy /\ Undispatchable(trace[i].x)) =>
            /\ At("start", trace[i].id) = {}
            /\ \E k \in At("done", trace[i].id) : ~trace[k].busy
            /\ \E p \in Responses(trace[i].id) : out[p[1]][p[2]].kind = "error"

(***************************************************************************)
(* C7, as claimed: the busy flag is true exactly when one handler is in    *)
(* progress (parked at an await, between two steps of the agent), and      *)
(* there is never more than one.                                           *)
(***************************************************************************)
BusyIffOneHandler ==
    /\ Len(susp) <= 1
    /\ _busy <=> Len(susp) = 1

(***************************************************************************)
(* C8: accepted commands are handled one at a time in arrival order: a     *)
(* line is accepted only after every line accepted before it has gone      *)
(* through _send_response, and on each connection the responses to         *)
(* accepted lines stand in the order the lines were accepted.              *)
(***************************************************************************)
\* position in the history at which line id was accepted
AcceptPos(id) == CHOOSE i \in At("line", id) : ~trace[i].busy

OneAtATimeInOrder ==
    /\ \A i, j \in DOMAIN trace :
          ( /\ i < j
            /\ trace[i].e = "line" /\ ~trace[i].busy
            /\ trace[j].e = "line" /\ ~trace[j].busy ) =>
              \E k \in At("done", trace[i].id) : i < k /\ k < j
    /\ \A c \in Conn : \A p, q \in DOMAIN out[c] :
          ( /\ p < q
            /\ out[c][p].msg # "busy"
            /\ out[c][q].msg # "busy" ) =>
              /\ AcceptedLine(out[c][p].re)
              /\ AcceptedLine(out[c][q].re)
              /\ AcceptPos(out[c][p].re) < AcceptPos(out[c][q].re)

\* two accepted lines, the first parked for a while, both answered
OneAtATimeInOrderWitness ==
    \E c \in Conn : \E p, q \in DOMAIN out[c] :
        /\ p < q
        /\ out[c][p].msg = "screenshot"
        /\ out[c][q].msg # "busy"
        /\ out[c][q].kind = "success"

(***************************************************************************)
(* Reading the calls of sendGameCommand                                    *)
(***************************************************************************)
CallIds == DOMAIN calls

\* call j was resolved with the agent's response to the command of call i,
\* which arrived after the timer of call i had fired
DeliveredLate(i, j) ==
    /\ calls[j].state = "resolved"
    /\ calls[j].by = "late response"
    /\ calls[j].result.re = i

\* C9: a call whose timer fired is rejected with the timeout error, and the
\* agent's response to its command is never handed to any call, whenever it
\* arrives
LateResponseNeverDelivered ==
    \A i \in CallIds :
        calls[i].timer = "fired" =>
            /\ calls[i].state = "rejected"
            /\ calls[i].result = TimedOut
            /\ \A j \in CallIds : ~DeliveredLate(i, j)

\* the call passed the connected check: a command was sent for it
Sent(i) == calls[i].by # "throw"

\* C10: while every send has been issued after the previous one settled,
\* resolve or reject has been invoked at most once on each call: not at all
\* while it is pending (and then its timer is armed), once when it is
\* settled, by the response line, by its timer, or by the connection
\* closing; a settled call has no armed timer and is not the pending request,
\* so that no later event reaches it
SettledExactlyOnce ==
    serial =>
        \A i \in CallIds :
            Sent(i) =>
                /\ calls[i].attempts <= 1
                /\ calls[i].state = "pending" =>
                      /\ calls[i].attempts = 0
                      /\ calls[i].timer = "armed"
                      /\ calls[i].by = "none"
                /\ calls[i].state # "pending" =>
                      /\ calls[i].attempts = 1
                      /\ calls[i].timer # "armed"
                      /\ pendingResolve # i
                      /\ calls[i].by \in {"response", "late response", "timeout", "close"}
                      /\ calls[i].by = "timeout" <=>
                            /\ calls[i].state = "rejected"
                            /\ calls[i].timer = "fired"
                            /\ calls[i].result = TimedOut
                      /\ calls[i].by \in {"response", "late response"} =>
                            /\ calls[i].state = "resolved"
                            /\ calls[i].timer = "cleared"
                            /\ calls[i].result.re # 0
                      /\ calls[i].by = "close" =>
                            /\ calls[i].state = "resolved"
                            /\ calls[i].timer = "cleared"
                            /\ calls[i].result \in {ConnectionClosed, Disconnected}

\* serialized use in which a call was settled by its timer, the agent's
\* response to it then arrived in full, and the connection then closed; a
\* second call was settled by its own response before that
SettledExactlyOnceWitness ==
    /\ serial
    /\ Len(calls) = 2
    /\ calls[1].by = "response"
    /\ calls[2].by = "timeout"
    /\ \E c \in Conn :
        /\ sock[c] = "closed"
        /\ rxpos[c] = Len(PutData(out[c]))
        /\ \E p \in DOMAIN out[c] : out[c][p].re = 2

(***************************************************************************)
(* C11: when the close handler of a socket runs while a call is stored as  *)
(* the pending request, that call, pending until then, is resolved by that *)
(* step with the payload {error: "Connection closed"}, resolve has then    *)
(* been invoked once on it, and the slot is empty; a call resolved so is   *)
(* never resolved again; and under serialized use a call that is pending   *)
(* on a socket whose peer has closed does not hang: it gets settled with   *)
(* no need for its timer to fire.                                          *)
(***************************************************************************)
\* this step is the close handler of some socket
CloseStep == \E c \in Conn : sock[c] # "closed" /\ sock'[c] = "closed"

\* the stored socket's peer has closed its end
PeerClosed == socket # NoSocket /\ conns[socket] = "evicted"

ClosedWhileOutstanding ==
    /\ [](\A i \in CallIds :
            (calls[i].by = "close" /\ calls[i].result = ConnectionClosed) =>
                /\ calls[i].state = "resolved"
                /\ calls[i].attempts = 1
                /\ pendingResolve # i)
    /\ [][(CloseStep /\ pendingResolve # NoPending) =>
            /\ calls[pendingResolve].state = "pending"
            /\ calls'[pendingResolve].state = "resolved"
            /\ calls'[pendingResolve].result = ConnectionClosed
            /\ calls'[pendingResolve].attempts = 1
            /\ pendingResolve' = NoPending]_vars
    /\ \A i \in 1..MaxCalls :
          (serial /\ PeerClosed /\ pendingResolve = i)
              ~> (~serial \/ (/\ i \in CallIds
                              /\ calls[i].state # "pending"
                              /\ pendingResolve # i))

\* the peer closed while call 1 was outstanding, the close handler ran and
\* resolved it with the connection-closed payload; its timer never fired
ClosedWhileOutstandingWitness ==
    /\ Len(calls) >= 1
    /\ calls[1].by = "close"
    /\ calls[1].result = ConnectionClosed
    /\ calls[1].timer = "cleared"
    /\ pendingResolve = NoPending
    /\ \E c \in Conn : sock[c] = "closed" /\ conns[c] = "evicted"

(***************************************************************************)
(* C12: every call that passed the connected check is settled in the end,  *)
(* whatever the order of the controller's events and whether or not sends  *)
(* overlap: while it is pending its timer is armed, the closure stored in  *)
(* the slot is always that of a call still pending, and every pending call *)
(* leads to a settled one (by a response, its timer, a close or a          *)
(* teardown).                                                              *)
(***************************************************************************)
EverySendSettles ==
    /\ [](\A i \in CallIds :
            /\ (Sent(i) /\ calls[i].state = "pending") => calls[i].timer = "armed"
            /\ pendingResolve = i => calls[i].state = "pending"
            /\ calls[i].state # "pending" =>
                   calls[i].by \in {"response", "late response", "timeout",
                                    "close", "throw"})
    /\ \A i \in 1..MaxCalls :
          (i \in CallIds /\ calls[i].state = "pending")
              ~> (i \in CallIds /\ calls[i].state # "pending")

\* overlapping sends: the second send replaced the closure of the first, the
\* timer of the first then emptied the slot, and both calls were settled by
\* their timers
EverySendSettlesWitness ==
    /\ ~serial
    /\ Len(calls) = 2
    /\ calls[1].by = "timeout"
    /\ calls[2].by = "timeout"
    /\ pendingResolve = NoPending

(***************************************************************************)
(* C13: a call of sendGameCommand made while connected is false or no      *)
(* socket is stored fails at once with the not-connected error: the step   *)
(* writes to no connection, starts no timer for the call, and leaves the   *)
(* pending request slot, the stored socket and the buffer as they were.    *)
(***************************************************************************)
\* this step is a call of sendGameCommand
SendStep == Len(calls') = Len(calls) + 1

SendWhileDisconnectedFails ==
    [][(SendStep /\ (~connected \/ socket = NoSocket)) =>
          /\ calls'[Len(calls')].state = "rejected"
          /\ calls'[Len(calls')].result = NotConnected
          /\ calls'[Len(calls')].timer = "none"
          /\ \A i \in CallIds : calls'[i] = calls[i]
          /\ wire' = wire
          /\ pendingResolve' = pendingResolve
          /\ UNCHANGED <<socket, connected, responseBuffer, sock, conns>>]_vars

\* a first call was sent on a connection, the connection went away, and a
\* second call then failed at the connected check
SendWhileDisconnectedFailsWitness ==
    /\ Len(calls) = 2
    /\ Sent(1)
    /\ calls[2].by = "throw"
    /\ calls[2].timer = "none"
    /\ ~connected

(***************************************************************************)
(* C14: the step in which a call's timer fires writes nothing to the agent *)
(* and closes nothing: the connections, the stored socket, connected and   *)
(* the receive buffer are as before, only the pending request slot is      *)
(* emptied (and the call rejected), and nothing of the agent changes: a    *)
(* handler that is suspended stays suspended with the busy flag true, and  *)
(* in every state a suspended handler has the busy flag true.              *)
(***************************************************************************)
\* this step is the timer of call i firing
TimeoutStep(i) ==
    /\ i \in CallIds
    /\ calls[i].timer = "armed"
    /\ calls'[i].timer = "fired"

TimeoutLeavesAgentRunning ==
    /\ [](susp # <<>> => _busy)
    /\ [][\A i \in 1..MaxCalls :
            TimeoutStep(i) =>
              /\ pendingResolve' = NoPending
              /\ calls'[i].state = "rejected"
              /\ UNCHANGED <<wire, conns, sock, socket, connected, responseBuffer>>
              /\ UNCHANGED <<_busy, susp, out, _client, _buffer, _server, rxlines, fnVars>>]_vars

\* the timer of call 1 has fired while the handler of its command is
\* suspended: the connection is still up, the handler still parked, the
\* flag still true
TimeoutLeavesAgentRunningWitness ==
    /\ Len(calls) >= 1
    /\ calls[1].by = "timeout"
    /\ connected
    /\ socket # NoSocket
    /\ sock[socket] = "open"
    /\ pendingResolve = NoPending
    /\ Suspended(1)
    /\ _busy

(***************************************************************************)
(* C15: when the data handler runs while no pending request is stored,     *)
(* every complete line it finds is dropped: no call is resolved or changed,*)
(* the slot stays empty, and the buffer keeps only the bytes that follow   *)
(* the last newline, so that no line is kept for a later send; at no time  *)
(* does the buffer hold a complete line.                                   *)
(***************************************************************************)
\* what follows the last newline of a byte sequence
RECURSIVE AfterLastNL(_)
AfterLastNL(bytes) ==
    IF FindNL(bytes, 1) = 0 THEN bytes
    ELSE AfterLastNL(SubSeq(bytes, FindNL(bytes, 1) + 1, Len(bytes)))

\* this step is the data handler of socket c
DataStep(c) == rxpos'[c] > rxpos[c]

\* the bytes that step hands to the handler
Chunk(c) == SubSeq(PutData(out[c]), rxpos[c] + 1, rxpos'[c])

UnclaimedLineIsDropped ==
    /\ [](FindNL(responseBuffer, 1) = 0)
    /\ [][\A c \in Conn :
            (DataStep(c) /\ pendingResolve = NoPending) =>
              /\ calls' = calls
              /\ pendingResolve' = NoPending
              /\ responseBuffer' = AfterLastNL(responseBuffer \o Chunk(c))]_vars

\* the response to call 1 arrived in full after its timer had fired and
\* before call 2 was sent; it was dropped, and call 2 got its own response
UnclaimedLineIsDroppedWitness ==
    /\ Len(calls) = 2
    /\ calls[1].by = "timeout"
    /\ calls[2].by = "response"
    /\ calls[2].result.re = 2
    /\ responseBuffer = <<>>
    /\ \E c \in Conn : \E p, q \in DOMAIN out[c] :
          /\ p < q
          /\ out[c][p].re = 1
          /\ out[c][q].re = 2
          /\ rxpos[c] = Len(PutData(out[c]))

(***************************************************************************)
(* A new connection while a client is served                               *)
(***************************************************************************)
\* history: the agent has taken connection c from its listener
Taken(c) == conns[c] # "unused" /\ \A i \in DOMAIN backlog : backlog[i] # c

\* the connection _process reads in its next run: the one it accepts in that
\* run if one is waiting, else its client
Latest == IF backlog # <<>> THEN Head(backlog) ELSE _client

\* the bytes a run of _process can cut into lines: what it read before from
\* the same client, and what that client has sent
Readable == (IF backlog # <<>> THEN <<>> ELSE _buffer)
            \o (IF Latest = NoClient THEN <<>> ELSE wire[Latest])

\* the events added to the history in this step
NewEvents == {trace'[i] : i \in (Len(trace) + 1)..Len(trace')}

\* C16: a connection accepted while a client is served replaces that client,
\* which the agent disconnects: every connection the agent has taken and that
\* is still open is its one client, and whatever a run of _process reads or
\* dispatches comes from the connection accepted last
NewConnectionReplacesClient ==
    /\ [](\A c \in Conn : (Taken(c) /\ conns[c] = "open") => c = _client)
    /\ [][/\ (backlog # <<>> /\ backlog' = Tail(backlog)) =>
                /\ _client' \in {Head(backlog), NoClient}
                /\ _client # NoClient => conns'[_client] = "evicted"
          /\ \A c \in Conn :
                Len(wire'[c]) < Len(wire[c]) =>
                    \/ c = Latest
                    \/ c = _client /\ conns'[c] = "evicted" /\ wire'[c] = <<>>
          /\ \A e \in NewEvents :
                e.e = "line" =>
                    \A j \in DOMAIN e.x : \E p \in DOMAIN Readable : Readable[p] = e.x[j]
          /\ _buffer' # _buffer =>
                \A j \in DOMAIN _buffer' :
                    \E p \in DOMAIN Readable : Readable[p] = _buffer'[j]]_vars

\* the second connection arrived while the first was served, the first was
\* disconnected, and a line was read from the second and answered on it
NewConnectionReplacesClientWitness ==
    /\ conns[1] = "evicted"
    /\ _client = 2
    /\ conns[2] = "open"
    /\ At("line", 1) # {}
    /\ out[1] = <<>>
    /\ out[2] # <<>>

(***************************************************************************)
(* The close event of the controller's socket                              *)
(***************************************************************************)
\* C17: when the close handler runs, connected becomes false, what is
\* buffered of an incomplete response is dropped, and the pending call, if
\* there is one, is resolved with the connection-closed error and removed
CloseClearsConnection ==
    [][CloseStep =>
          /\ connected' = FALSE
          /\ responseBuffer' = <<>>
          /\ pendingResolve' = NoPending
          /\ pendingResolve # NoPending =>
                /\ calls'[pendingResolve].state = "resolved"
                /\ calls'[pendingResolve].result = ConnectionClosed]_vars

(***************************************************************************)
(* The exit of the target process                                          *)
(***************************************************************************)
\* the exit event of the process of run n is handled in this step
ExitStep(n) == n \in RunIds /\ runs[n].process = "dead" /\ runs'[n].process = "exited"

\* C18: when the exit event of a process is handled the stored socket is
\* destroyed, connected is false and the response buffer empty, every call of
\* sendGameCommand that was in flight is resolved with an error payload, so
\* that none is pending afterwards, and activeProcess is not that process
ExitTearsDown ==
    [][\A n \in 1..MaxRuns :
          ExitStep(n) =>
              /\ socket' = NoSocket
              /\ socket # NoSocket => sock'[socket] = "destroyed"
              /\ connected' = FALSE
              /\ responseBuffer' = <<>>
              /\ pendingResolve' = NoPending
              /\ \A i \in CallIds :
                    calls[i].state = "pending" =>
                        /\ calls'[i].state = "resolved"
                        /\ calls'[i].result.kind = "error"
              /\ activeProcess' # n]_vars

(***************************************************************************)
(* The bootstrap artifact                                                  *)
(***************************************************************************)
\* the project of the last call of run_project
LastProject == runs[Len(runs)].project

\* C19: the artifact is put into the project before its process is spawned
\* and removed after the run: whenever no process is active, after
\* stop_project, after the process exited or could not be started, or after
\* cleanup, the project of the last run does not hold the artifact
ArtifactRemovedAfterRun ==
    (runs # <<>> /\ activeProcess = NoProcess) => ~artifact[LastProject]

(***************************************************************************)
(* The attempts of connectToGame                                           *)
(***************************************************************************)
\* the call of connectToGame of run n has returned
Returned(n) == runs[n].loop \in {"connected", "aborted", "exhausted"}

\* history: the calls of createConnection the loop of run n has made
Attempts(n) == IF runs[n].loop \in {"aborted", "exhausted"}
               THEN runs[n].attempt - 1
               ELSE runs[n].attempt

\* the call of connectToGame of run n returns in this step, all attempts failed
ExhaustStep(n) ==
    n \in RunIds /\ runs[n].loop = "retry" /\ runs'[n].loop = "exhausted"

\* C20: every call of connectToGame returns, it makes at most maxAttempts
\* attempts, the first after the initial delay and each other after the delay
\* that follows a failed attempt, and when the last attempt has failed it
\* returns with connected false and no socket stored
ConnectLoopTerminates ==
    /\ [](\A n \in RunIds : Attempts(n) \in 0..maxAttempts)
    /\ [][\A n \in 1..MaxRuns :
            /\ (n \in RunIds /\ runs'[n].loop = "connecting" /\ runs[n].loop # "connecting") =>
                  /\ runs[n].loop \in {"delay", "retry"}
                  /\ Attempts(n)' = Attempts(n) + 1
            /\ ExhaustStep(n) =>
                  /\ Attempts(n) = maxAttempts
                  /\ connected' = FALSE
                  /\ socket' = NoSocket]_vars
    /\ \A n \in 1..MaxRuns : (n \in RunIds) ~> (n \in RunIds /\ Returned(n))

(***************************************************************************)
(* The connect loop of a run whose process is gone                         *)
(***************************************************************************)
\* the process of run n has exited or the controller has stopped it: its exit
\* event was handled, or kill() was called on it by stop_project, cleanup or a
\* later run_project
Gone(n) ==
    \/ runs[n].process \in {"killed", "exited"}
    \/ runs[n].process = "dead" /\ activeProcess # n

\* the loop of run n calls createConnection in this step
AttemptStep(n) == runs[n].loop # "connecting" /\ runs'[n].loop = "connecting"

\* the callback of an attempt of run n sets connected in this step
ConnectStep(n) == runs[n].loop = "connecting" /\ runs'[n].loop = "connected"

\* C21: once the process of a run has exited or been stopped, the loop of that
\* run starts no attempt and does not set connected, also when a later
\* run_project has started another process
StaleLoopAborts ==
    [][\A n \in 1..MaxRuns :
          (n \in RunIds /\ Gone(n)) => ~AttemptStep(n) /\ ~ConnectStep(n)]_vars

(***************************************************************************)
(* Who changes the busy flag                                               *)
(***************************************************************************)
\* history: line id was rejected as busy
Rejected(id) == \E i \in DOMAIN trace' : trace'[i].e = "busy" /\ trace'[i].id = id

\* C22: the busy flag becomes true only where _handle_command takes a line
\* while it is false, and false only where _send_response answers a line that
\* was taken; a step that accepts or evicts a client, detects that the client
\* is gone, reads bytes without a complete line, rejects lines as busy, or is
\* a frame in which no handler responds, leaves it as it is
BusyOnlyByCommands ==
    [][/\ (~_busy /\ _busy') =>
              \E e \in NewEvents : e.e = "line" /\ ~e.busy
       /\ (_busy /\ ~_busy') =>
              \E e \in NewEvents : e.e = "done" /\ ~Rejected(e.id)
       /\ (\A e \in NewEvents : e.e = "busy" \/ (e.e = "line" /\ e.busy)) =>
              _busy' = _busy]_vars

\* a client was evicted while a handler was suspended and the line of the new
\* client was rejected as busy: the flag is still set
BusyOnlyByCommandsWitness ==
    /\ _busy
    /\ susp # <<>>
    /\ conns[1] = "evicted"
    /\ _client = 2
    /\ \E i \in DOMAIN trace : trace[i].e = "busy" /\ trace[i].id = 2
    /\ \E i \in DOMAIN out[2] : out[2][i].msg = "busy"

(***************************************************************************)
(* Commands that are answered with an error.  The agent alone, with lines  *)
(* of every kind that _handle_command answers with {"error": ...}: text    *)
(* that is not JSON, JSON that is not an object, a command outside the     *)
(* catalog, a handler that finds no node or misses a parameter, and the    *)
(* busy rejection of a line that arrives while "wait" is suspended.        *)
(***************************************************************************)
ErrTemplates ==
    {<<"badjson", ABSENT, ABSENT, "ok", 0>>,
     <<"nonobject", ABSENT, ABSENT, "ok", 0>>,
     <<"object", "Wait", ABSENT, "ok", 1>>,
     <<"object", "get_property", "dict", "err", 0>>,
     <<"object", "get_property", "dict", "ok", 0>>,
     <<"object", "wait", "dict", "ok", MaxFrames>>}

ErrSend == Send(MaxLines, ErrTemplates)

ErrNext ==
    \/ Process
    \/ ProcessFrame
    \/ ClientConnect
    \/ ErrSend
    \/ ClientClose

ErrSpec == Init /\ [][ErrNext]_vars

\* a catalog command whose fields have the declared types
ValidCommand(line) ==
    CatalogCommand(line) /\ line[1].m.params # WRONGTYPE /\ line[1].m.arg # "badtype"

\* history: line id was answered with an error (after this step)
ErrorAnswered(id) ==
    \E c \in Conn : \E i \in DOMAIN out'[c] :
        out'[c][i].re = id /\ out'[c][i].kind = "error"

\* C23: a step in which the agent writes an error response (invalid JSON,
\* not an object, unknown command, handler error, busy) to a connection
\* leaves that connection open and served and the listener running; and a
\* valid command that is read after an error answer while the busy flag is
\* false is handed to its handler
ErrorKeepsServing ==
    [][/\ \A c \in Conn : \A i \in (Len(out[c]) + 1)..Len(out'[c]) :
              out'[c][i].kind = "error" =>
                  /\ _client' = c
                  /\ conns'[c] = conns[c]
                  /\ conns'[c] # "evicted"
                  /\ _server' = "listening"
       /\ \A i, j \in DOMAIN trace' :
              ( /\ i < j
                /\ trace'[i].e \in {"done", "busy"}
                /\ ErrorAnswered(trace'[i].id)
                /\ trace'[j].e = "line" /\ ~trace'[j].busy
                /\ ValidCommand(trace'[j].x) ) =>
                  /\ j < Len(trace')
                  /\ trace'[j + 1].e = "start"
                  /\ trace'[j + 1].id = trace'[j].id]_vars

\* line 1 was answered with an error that is not the busy rejection, and
\* line 2, a catalog command on the same connection, got its handler
ErrorKeepsServingWitness ==
    /\ _client = 1 /\ conns[1] = "open" /\ _server = "listening"
    /\ \E i \in DOMAIN out[1] :
           out[1][i].re = 1 /\ out[1][i].kind = "error" /\ out[1][i].msg # "busy"
    /\ At("start", 1) = {}
    /\ At("start", 2) # {}
    /\ \E i \in DOMAIN out[1] : out[1][i].re = 2 /\ out[1][i].kind = "success"

(***************************************************************************)
(* The two frame readers on a stream of two messages.  The peer writes     *)
(* pad[1], the JSON text of message 1, "\n", pad[2], the JSON text of      *)
(* message 2, "\n"; a pad is stray newlines and spaces, and a JSON text    *)
(* may hold a character outside ASCII.  The agent reads the commands       *)
(* "wait" and "get_property" from the client it serves; the controller,    *)
(* with the request of one sendGameCommand pending, reads two responses.   *)
(* TCP delivers the bytes in chunks cut anywhere.  Each behaviour feeds    *)
(* one stream to one of the two readers.                                   *)
(***************************************************************************)
MaxPad == 2

Pads == UNION {[1..n -> {SP, NL}] : n \in 0..MaxPad}

\* a stream, and the reader it is sent to
Shapes == [wide : [1..2 -> BOOLEAN], pad : [1..2 -> Pads],
           reader : {"agent", "controller"}]

\* JSON.stringify(...) of message m as a String
Json(m, wide) ==
    IF wide THEN <<HeadByte(m), Char(m), TailByte(m)>>
            ELSE <<HeadByte(m), TailByte(m)>>

\* the bytes on the connection
Stream(shape, m1, m2) ==
    to_utf8_buffer(shape.pad[1] \o Json(m1, shape.wide[1]) \o <<NL>>
                   \o shape.pad[2] \o Json(m2, shape.wide[2]) \o <<NL>>)

FrameCommand(id) ==
    IF id = 1 THEN Msg(1, "object", "wait", "dict", "ok", MaxFrames)
              ELSE Msg(id, "object", "get_property", "dict", "ok", 0)

FrameResponse(id) == Resp(id, "success", "wait")

FrameInit ==
    /\ input \in Shapes
    /\ output = NoOutput
    /\ _busy = FALSE
    /\ _client = 1
    /\ _buffer = <<>>
    /\ susp = <<>>
    /\ out = [c \in Conn |-> <<>>]
    /\ wire = [c \in Conn |->
                 IF c = 1 /\ input.reader = "agent"
                 THEN Stream(input, FrameCommand(1), FrameCommand(2))
                 ELSE <<>>]
    /\ conns = [c \in Conn |-> IF c = 1 THEN "open" ELSE "unused"]
    /\ backlog = <<>>
    /\ nsent = 2
    /\ trace = <<>>
    /\ ran = 0
    /\ _server = "listening"
    /\ socket = 1
    /\ connected = TRUE
    /\ responseBuffer = <<>>
    /\ pendingResolve = 1
    /\ calls = <<Call(FrameCommand(1), "pending", NoResult, "armed", 0, "none")>>
    /\ sock = [c \in Conn |-> IF c = 1 THEN "open" ELSE "none"]
    /\ rxpos = [c \in Conn |-> 0]
    /\ serial = TRUE
    /\ activeProcess = NoProcess
    /\ projectPath = NoProject
    /\ artifact = [p \in 1..MaxProjects |-> FALSE]
    /\ runs = <<>>
    /\ shutdown = FALSE
    /\ signals = {}
    /\ rxlines = <<>>
    /\ rxwire = IF input.reader = "controller"
                THEN Stream(input, FrameResponse(1), FrameResponse(2))
                ELSE <<>>

\* socket.on('data'): the next chunk of the peer's bytes arrives
DataChunk ==
    \E k \in 1..Len(rxwire) :
        /\ connected
        /\ rxwire' = SubSeq(rxwire, k + 1, Len(rxwire))
        /\ StoreCtl(OnDataLines([Ctl EXCEPT !.buf =
               @ \o toString(SubSeq(rxwire, 1, k))]))
        /\ UNCHANGED <<agentVars, _server, socket, connected, sock, rxpos, serial,
                       runVars, input, output, signals>>

FrameNext ==
    \/ Process
    \/ ProcessFrame
    \/ DataChunk

FrameSpec == FrameInit /\ [][FrameNext]_vars

\* history: the lines _process handed to _handle_command, in order
HandledLines ==
    LET ls == SelectSeq(trace, LAMBDA e : e.e = "line")
    IN  [i \in 1..Len(ls) |-> ls[i].x]

\* the two JSON texts the peer wrote
Written(m1, m2) == <<Json(m1, input.wide[1]), Json(m2, input.wide[2])>>

IsPrefix(s, t) == Len(s) <= Len(t) /\ s = SubSeq(t, 1, Len(s))

\* C24: whatever the cuts, each reader yields the two JSON texts the peer
\* wrote, in order: what it has yielded so far is a prefix of the two, and
\* once the whole stream is delivered it has yielded both
FramesSurviveCuts ==
    /\ IsPrefix(HandledLines, Written(FrameCommand(1), FrameCommand(2)))
    /\ IsPrefix(rxlines, Written(FrameResponse(1), FrameResponse(2)))
    /\ (wire[1] = <<>> /\ rxwire = <<>>) => Len(HandledLines) + Len(rxlines) = 2

\* the bytes a step takes from the stream
Taking(before, after) == SubSeq(before, 1, Len(before) - Len(after))

\* position of the last newline of s, 0 when there is none
LastNL(s) ==
    IF \E i \in DOMAIN s : s[i] = NL
    THEN CHOOSE i \in DOMAIN s : s[i] = NL /\ \A j \in DOMAIN s : s[j] = NL => j <= i
    ELSE 0

\* every line that s completes is empty or whitespace only, and there is one
BlankLinesOnly(s) ==
    /\ LastNL(s) > 0
    /\ \A i \in 1..LastNL(s) : s[i] \in {SP, NL}

\* C25: a chunk that completes nothing but empty and whitespace-only lines
\* hands no line to _handle_command, writes no response and leaves the busy
\* flag and the suspended handlers as they are; on the controller it leaves
\* the pending request and every call as they are
BlankLinesSkipped ==
    [][/\ BlankLinesOnly(_buffer \o get_string_from_utf8(Taking(wire[1], wire'[1]))) =>
              /\ trace' = trace
              /\ out' = out
              /\ _busy' = _busy
              /\ susp' = susp
       /\ BlankLinesOnly(responseBuffer \o toString(Taking(rxwire, rxwire'))) =>
              /\ pendingResolve' = pendingResolve
              /\ calls' = calls
              /\ rxlines' = rxlines]_vars

\* the stream has a whitespace-only line before each message, and the reader
\* has just taken one of them: the agent the second one, while "wait" is
\* suspended and the flag is set; the controller the first one, with the
\* request still pending
BlankLinesSkippedWitness ==
    /\ input.pad = <<(<<SP, NL>>), (<<SP, NL>>)>>
    /\ \/ /\ input.reader = "agent"
          /\ Len(wire[1]) = Len(to_utf8_buffer(Json(FrameCommand(2), input.wide[2]))) + 1
          /\ _buffer = <<>>
          /\ _busy /\ susp # <<>>
          /\ Len(HandledLines) = 1
          /\ out[1] = <<>>
       \/ /\ input.reader = "controller"
          /\ Len(rxwire) = Len(Stream(input, FrameResponse(1), FrameResponse(2))) - 2
          /\ responseBuffer = <<>>
          /\ pendingResolve = 1
          /\ calls[1].state = "pending"
          /\ rxlines = <<>>

(***************************************************************************)
(* The value codec of the agent.  A Variant is a record with a field type; *)
(* a Dictionary (a JSON object) is a function from its keys to Variants    *)
(* and has no key "type".  A number carries h, twice its value, so that    *)
(* 0.5 is a float and int() has something to cut off.  A Vector2 holds     *)
(* floats and a Vector2i ints; Basis, Transform2D, Rect2 and AABB hold     *)
(* vectors.                                                                *)
(***************************************************************************)
Null == [type |-> "Nil"]
Float(h) == [type |-> "float", h |-> h]
Integer(n) == [type |-> "int", h |-> 2 * n]

\* float(x) and int(x) of a number; int() rounds towards zero
float(x) == [type |-> "float", h |-> x.h]
int(x) ==
    [type |-> "int",
     h |-> IF x.h >= 0 THEN 2 * (x.h \div 2) ELSE 0 - 2 * ((0 - x.h) \div 2)]

\* value is Dictionary
IsDictionary(value) == "type" \notin DOMAIN value
EmptyDictionary == [k \in {} |-> Null]

\* dict.has(key), dict.get(key, default), dict.size()
has(dict, key) == key \in DOMAIN dict
get(dict, key, default) == IF key \in DOMAIN dict THEN dict[key] ELSE default
size(dict) == Cardinality(DOMAIN dict)

\* the constructors
Vector2(x, y) == [type |-> "Vector2", x |-> x, y |-> y]
Vector2i(x, y) == [type |-> "Vector2i", x |-> x, y |-> y]
Vector3(x, y, z) == [type |-> "Vector3", x |-> x, y |-> y, z |-> z]
Vector3i(x, y, z) == [type |-> "Vector3i", x |-> x, y |-> y, z |-> z]
Color(r, g, b, a) == [type |-> "Color", r |-> r, g |-> g, b |-> b, a |-> a]
Quaternion(x, y, z, w) == [type |-> "Quaternion", x |-> x, y |-> y, z |-> z, w |-> w]
Rect2(x, y, width, height) ==
    [type |-> "Rect2", position |-> Vector2(x, y), size |-> Vector2(width, height)]
AABB(position, sz) == [type |-> "AABB", position |-> position, size |-> sz]
Basis(x_axis, y_axis, z_axis) ==
    [type |-> "Basis", x |-> x_axis, y |-> y_axis, z |-> z_axis]
Transform3D(basis, origin) == [type |-> "Transform3D", basis |-> basis, origin |-> origin]
Transform2D(x_axis, y_axis, origin) ==
    [type |-> "Transform2D", x |-> x_axis, y |-> y_axis, origin |-> origin]

\* Basis.IDENTITY
IDENTITY ==
    Basis(Vector3(Float(2), Float(0), Float(0)),
          Vector3(Float(0), Float(2), Float(0)),
          Vector3(Float(0), Float(0), Float(2)))

\* _variant_to_json, for null, numbers and the types that have a type hint
RECURSIVE _variant_to_json(_)
_variant_to_json(value) ==
    CASE value.type = "Nil" -> Null
      [] value.type \in {"bool", "int", "float", "String"} -> value
      [] value.type \in {"Vector2", "Vector2i"} -> [x |-> value.x, y |-> value.y]
      [] value.type \in {"Vector3", "Vector3i"} ->
             [x |-> value.x, y |-> value.y, z |-> value.z]
      [] value.type = "Color" ->
             [r |-> value.r, g |-> value.g, b |-> value.b, a |-> value.a]
      [] value.type = "Quaternion" ->
             [x |-> value.x, y |-> value.y, z |-> value.z, w |-> value.w]
      [] value.type = "Basis" ->
             [x |-> _variant_to_json(value.x),
              y |-> _variant_to_json(value.y),
              z |-> _variant_to_json(value.z)]
      [] value.type = "Transform3D" ->
             [basis |-> _variant_to_json(value.basis),
              origin |-> _variant_to_json(value.origin)]
      [] value.type = "Transform2D" ->
             [x |-> _variant_to_json(value.x),
              y |-> _variant_to_json(value.y),
              origin |-> _variant_to_json(value.origin)]
      [] value.type \in {"Rect2", "AABB"} ->
             [position |-> _variant_to_json(value.position),
              size |-> _variant_to_json(value.size)]

\* the JSON literals 0 and 1 and the default dictionaries of the match arms
Zero == Integer(0)
One == Integer(1)
Zero2 == [x |-> Zero, y |-> Zero]
Zero3 == [x |-> Zero, y |-> Zero, z |-> Zero]

RECURSIVE _json_to_variant(_, _)

\* variant: the components of a Vector2 are converted with int()
HintVector2Truncates(dict) == Vector2(int(get(dict, "x", Zero)), int(get(dict, "y", Zero)))

\* the arms of "match type_hint"
HintVector2(dict) == Vector2(float(get(dict, "x", Zero)), float(get(dict, "y", Zero)))

HintVector2i(dict) == Vector2i(int(get(dict, "x", Zero)), int(get(dict, "y", Zero)))

HintVector3(dict) ==
    Vector3(float(get(dict, "x", Zero)), float(get(dict, "y", Zero)),
            float(get(dict, "z", Zero)))

HintVector3i(dict) ==
    Vector3i(int(get(dict, "x", Zero)), int(get(dict, "y", Zero)),
             int(get(dict, "z", Zero)))

\* variant: a colour without "a" is transparent
HintColorTransparent(dict) ==
    Color(float(get(dict, "r", Zero)), float(get(dict, "g", Zero)),
          float(get(dict, "b", Zero)), float(get(dict, "a", Zero)))

HintColor(dict) ==
    Color(float(get(dict, "r", Zero)), float(get(dict, "g", Zero)),
          float(get(dict, "b", Zero)), float(get(dict, "a", One)))

HintQuaternion(dict) ==
    Quaternion(float(get(dict, "x", Zero)), float(get(dict, "y", Zero)),
               float(get(dict, "z", Zero)), float(get(dict, "w", One)))

HintRect2(dict) ==
    LET pos == get(dict, "position", Zero2)
        sz == get(dict, "size", Zero2)
    IN  Rect2(float(get(pos, "x", Zero)), float(get(pos, "y", Zero)),
              float(get(sz, "x", Zero)), float(get(sz, "y", Zero)))

HintAABB(dict) ==
    LET aabb_pos == get(dict, "position", Zero3)
        aabb_sz == get(dict, "size", Zero3)
    IN  AABB(Vector3(float(get(aabb_pos, "x", Zero)), float(get(aabb_pos, "y", Zero)),
                     float(get(aabb_pos, "z", Zero))),
             Vector3(float(get(aabb_sz, "x", Zero)), float(get(aabb_sz, "y", Zero)),
                     float(get(aabb_sz, "z", Zero))))

HintBasis(dict) ==
    LET bx == get(dict, "x", [x |-> One, y |-> Zero, z |-> Zero])
        by == get(dict, "y", [x |-> Zero, y |-> One, z |-> Zero])
        bz == get(dict, "z", [x |-> Zero, y |-> Zero, z |-> One])
    IN  Basis(Vector3(float(get(bx, "x", Zero)), float(get(bx, "y", Zero)),
                      float(get(bx, "z", Zero))),
              Vector3(float(get(by, "x", Zero)), float(get(by, "y", Zero)),
                      float(get(by, "z", Zero))),
              Vector3(float(get(bz, "x", Zero)), float(get(bz, "y", Zero)),
                      float(get(bz, "z", Zero))))

HintTransform3D(dict) ==
    LET basis_dict == get(dict, "basis", EmptyDictionary)
        origin_dict == get(dict, "origin", Zero3)
        basis == IF size(basis_dict) > 0
                 THEN _json_to_variant(basis_dict, "Basis")
                 ELSE IDENTITY
        origin == Vector3(float(get(origin_dict, "x", Zero)),
                          float(get(origin_dict, "y", Zero)),
                          float(get(origin_dict, "z", Zero)))
    IN  Transform3D(basis, origin)

HintTransform2D(dict) ==
    LET tx == get(dict, "x", [x |-> One, y |-> Zero])
        ty == get(dict, "y", [x |-> Zero, y |-> One])
        t_origin == get(dict, "origin", Zero2)
    IN  Transform2D(Vector2(float(get(tx, "x", Zero)), float(get(tx, "y", Zero))),
                    Vector2(float(get(ty, "x", Zero)), float(get(ty, "y", Zero))),
                    Vector2(float(get(t_origin, "x", Zero)),
                            float(get(t_origin, "y", Zero))))

\* the type hints that "match type_hint" has an arm for
Hints ==
    {"Vector2", "Vector2i", "Vector3", "Vector3i", "Color", "Quaternion",
     "Rect2", "AABB", "Basis", "Transform3D", "Transform2D"}

Hinted(dict, type_hint) ==
    CASE type_hint = "Vector2" -> HintVector2(dict)
      [] type_hint = "Vector2i" -> HintVector2i(dict)
      [] type_hint = "Vector3" -> HintVector3(dict)
      [] type_hint = "Vector3i" -> HintVector3i(dict)
      [] type_hint = "Color" -> HintColor(dict)
      [] type_hint = "Quaternion" -> HintQuaternion(dict)
      [] type_hint = "Rect2" -> HintRect2(dict)
      [] type_hint = "AABB" -> HintAABB(dict)
      [] type_hint = "Basis" -> HintBasis(dict)
      [] type_hint = "Transform3D" -> HintTransform3D(dict)
      [] type_hint = "Transform2D" -> HintTransform2D(dict)

\* variant: the three-vector test stands before the quaternion test
AutoDetectVectorFirst(dict) ==
    IF has(dict, "basis") /\ has(dict, "origin")
    THEN _json_to_variant(dict, "Transform3D")
    ELSE IF has(dict, "r") /\ has(dict, "g") /\ has(dict, "b")
    THEN Color(float(get(dict, "r", Zero)), float(get(dict, "g", Zero)),
               float(get(dict, "b", Zero)), float(get(dict, "a", One)))
    ELSE IF has(dict, "x") /\ has(dict, "y") /\ has(dict, "z")
    THEN Vector3(float(get(dict, "x", Zero)), float(get(dict, "y", Zero)),
                 float(get(dict, "z", Zero)))
    ELSE IF has(dict, "x") /\ has(dict, "y") /\ has(dict, "z") /\ has(dict, "w")
    THEN Quaternion(float(get(dict, "x", Zero)), float(get(dict, "y", Zero)),
                    float(get(dict, "z", Zero)), float(get(dict, "w", One)))
    ELSE IF has(dict, "position") /\ has(dict, "size")
    THEN IF has(dict.position, "z") \/ has(dict.size, "z")
         THEN _json_to_variant(dict, "AABB")
         ELSE _json_to_variant(dict, "Rect2")
    ELSE IF has(dict, "x") /\ has(dict, "y") /\ size(dict) = 2
    THEN Vector2(float(get(dict, "x", Zero)), float(get(dict, "y", Zero)))
    ELSE dict

\* "Auto-detect from dict keys"
AutoDetect(dict) ==
    IF has(dict, "basis") /\ has(dict, "origin")
    THEN _json_to_variant(dict, "Transform3D")
    ELSE IF has(dict, "r") /\ has(dict, "g") /\ has(dict, "b")
    THEN Color(float(get(dict, "r", Zero)), float(get(dict, "g", Zero)),
               float(get(dict, "b", Zero)), float(get(dict, "a", One)))
    ELSE IF has(dict, "x") /\ has(dict, "y") /\ has(dict, "z") /\ has(dict, "w")
    THEN Quaternion(float(get(dict, "x", Zero)), float(get(dict, "y", Zero)),
                    float(get(dict, "z", Zero)), float(get(dict, "w", One)))
    ELSE IF has(dict, "position") /\ has(dict, "size")
    THEN IF has(dict.position, "z") \/ has(dict.size, "z")
         THEN _json_to_variant(dict, "AABB")
         ELSE _json_to_variant(dict, "Rect2")
    ELSE IF has(dict, "x") /\ has(dict, "y") /\ has(dict, "z")
    THEN Vector3(float(get(dict, "x", Zero)), float(get(dict, "y", Zero)),
                 float(get(dict, "z", Zero)))
    ELSE IF has(dict, "x") /\ has(dict, "y") /\ size(dict) = 2
    THEN Vector2(float(get(dict, "x", Zero)), float(get(dict, "y", Zero)))
    ELSE dict

_json_to_variant(value, type_hint) ==
    IF ~IsDictionary(value)
    THEN value
    ELSE IF type_hint \in Hints
         THEN Hinted(value, type_hint)
         ELSE AutoDetect(value)

\* _json_to_variant_for_property: node is the property list of the node, a
\* function from the names of its properties to their type ids
TypeHintOf(type_id) ==
    CASE type_id = "TYPE_VECTOR2" -> "Vector2"
      [] type_id = "TYPE_VECTOR2I" -> "Vector2i"
      [] type_id = "TYPE_VECTOR3" -> "Vector3"
      [] type_id = "TYPE_VECTOR3I" -> "Vector3i"
      [] type_id = "TYPE_COLOR" -> "Color"
      [] type_id = "TYPE_QUATERNION" -> "Quaternion"
      [] type_id = "TYPE_RECT2" -> "Rect2"
      [] type_id = "TYPE_AABB" -> "AABB"
      [] type_id = "TYPE_BASIS" -> "Basis"
      [] type_id = "TYPE_TRANSFORM3D" -> "Transform3D"
      [] type_id = "TYPE_TRANSFORM2D" -> "Transform2D"

StructuredTypes == {"TYPE_VECTOR2", "TYPE_VECTOR2I", "TYPE_VECTOR3", "TYPE_VECTOR3I",
                    "TYPE_COLOR", "TYPE_QUATERNION", "TYPE_RECT2", "TYPE_AABB",
                    "TYPE_BASIS", "TYPE_TRANSFORM3D", "TYPE_TRANSFORM2D"}

\* bool(x) of a number
bool(x) == [type |-> "bool", b |-> x.h # 0]

_json_to_variant_for_property(node, property, value) ==
    IF property \in DOMAIN node
    THEN CASE node[property] \in StructuredTypes ->
                  _json_to_variant(value, TypeHintOf(node[property]))
           [] node[property] = "TYPE_BOOL" ->
                  IF value.type = "String"
                  THEN [type |-> "bool", b |-> value.lower = "true"]
                  ELSE bool(value)
           [] node[property] = "TYPE_INT" -> int(value)
           [] node[property] = "TYPE_FLOAT" -> float(value)
           [] OTHER -> _json_to_variant(value, "")
    ELSE _json_to_variant(value, "")

\* _cmd_set_property: the value that is handed to node.set
DecodeForSet(node, property, raw_value, type_hint) ==
    IF type_hint = ""
    THEN _json_to_variant_for_property(node, property, raw_value)
    ELSE _json_to_variant(raw_value, type_hint)

(***************************************************************************)
(* The codec applied to arguments drawn from bounded sets: numbers between *)
(* -MaxNum and MaxNum in steps of one half.                                *)
(***************************************************************************)
MaxNum == 1

Floats(n) == {Float(h) : h \in (0 - 2 * n)..(2 * n)}
Integers_(n) == {Integer(k) : k \in (0 - n)..n}
\* the components of the vectors inside Rect2, AABB, Basis and transforms
Ends(n) == {Float(0 - 1), Float(2 * n)}
End2(n) == {Vector2(x, y) : x, y \in Ends(n)}
End3(n) == {Vector3(x, y, z) : x, y, z \in Ends(n)}

\* the values of the types that have a type hint, with numbers up to n
Values(n) ==
    {Vector2(x, y) : x, y \in Floats(n)}
    \cup {Vector2i(x, y) : x, y \in Integers_(n)}
    \cup {Vector3(x, y, z) : x, y, z \in Floats(n)}
    \cup {Vector3i(x, y, z) : x, y, z \in Integers_(n)}
    \cup {Color(r, g, b, a) : r, g, b, a \in Floats(n)}
    \cup {Quaternion(x, y, z, w) : x, y, z, w \in Floats(n)}
    \cup {Rect2(x, y, w, h) : x, y, w, h \in Ends(n)}
    \cup {AABB(p, q) : p, q \in End3(n)}
    \cup {Basis(a, b, c) : a, b, c \in End3(n)}
    \cup {Transform3D(Basis(a, b, c), o) : a, b, c, o \in End3(n)}
    \cup {Transform2D(a, b, o) : a, b, o \in End2(n)}

RoundTripInputs(n) ==
    {[op |-> "round trip", value |-> v, type_hint |-> v.type] : v \in Values(n)}

\* JSON objects by their keys, for the decoding without a hint
ScalarKeys == {"x", "y", "z", "w", "r", "g", "b", "a", "k"}
ObjectKeys == {"position", "size", "basis", "origin"}

Sample(key, three) ==
    CASE key \in ScalarKeys -> Float(1)
      [] key \in {"position", "size"} ->
             IF three[key]
             THEN [x |-> Float(1), y |-> Float(2), z |-> Float(0 - 1)]
             ELSE [x |-> Float(1), y |-> Float(2)]
      [] key = "basis" -> [x |-> [x |-> Float(2), y |-> Float(1)]]
      [] key = "origin" -> [x |-> Float(1), z |-> Float(0 - 1)]

DetectInputs(keys) ==
    {[op |-> "decode", value |-> [k \in K |-> Sample(k, three)], type_hint |-> ""] :
        K \in SUBSET keys,
        three \in [{"position", "size"} -> BOOLEAN]}

\* every JSON object that is an encoded value with some of its fields left out
RECURSIVE Partials(_), PartialsOn(_, _)
PartialsOn(d, keys) ==
    IF keys = {} THEN {EmptyDictionary}
    ELSE LET k == CHOOSE key \in keys : TRUE
             rest == PartialsOn(d, keys \ {k})
         IN  rest \cup {[j \in (DOMAIN f) \cup {k} |-> IF j = k THEN q ELSE f[j]] :
                           f \in rest, q \in Partials(d[k])}
Partials(d) == IF IsDictionary(d) THEN PartialsOn(d, DOMAIN d) ELSE {d}

\* one value of each type, none of its components 0 or 1
SampleValue(type_hint) ==
    LET f == Float(0 - 1)
        n == Integer(0 - 1)
    IN  CASE type_hint = "Vector2" -> Vector2(f, f)
          [] type_hint = "Vector2i" -> Vector2i(n, n)
          [] type_hint = "Vector3" -> Vector3(f, f, f)
          [] type_hint = "Vector3i" -> Vector3i(n, n, n)
          [] type_hint = "Color" -> Color(f, f, f, f)
          [] type_hint = "Quaternion" -> Quaternion(f, f, f, f)
          [] type_hint = "Rect2" -> Rect2(f, f, f, f)
          [] type_hint = "AABB" -> AABB(Vector3(f, f, f), Vector3(f, f, f))
          [] type_hint = "Basis" ->
                 Basis(Vector3(f, f, f), Vector3(f, f, f), Vector3(f, f, f))
          [] type_hint = "Transform3D" ->
                 Transform3D(Basis(Vector3(f, f, f), Vector3(f, f, f), Vector3(f, f, f)),
                             Vector3(f, f, f))
          [] type_hint = "Transform2D" ->
                 Transform2D(Vector2(f, f), Vector2(f, f), Vector2(f, f))

DefaultInputs(hints) ==
    UNION {{[op |-> "decode", value |-> d, type_hint |-> h] :
                d \in Partials(_variant_to_json(SampleValue(h)))} : h \in hints}

\* set_property: the type hint, the declared type of the property, the value
SetHints == {""} \cup Hints \cup {"Vector4"}
ScalarTypes == {"TYPE_BOOL", "TYPE_INT", "TYPE_FLOAT"}
Nodes ==
    {EmptyDictionary}
    \cup {[position |-> t] : t \in StructuredTypes \cup ScalarTypes \cup {"TYPE_STRING"}}
RawObjects ==
    {[k \in K |-> Sample(k, [j \in {"position", "size"} |-> FALSE])] :
        K \in {{"x", "y"}, {"x", "y", "z"}, {"x", "y", "z", "w"}, {"r", "g", "b"},
               {"position", "size"}, {"k"}}}
Declared(node, property) ==
    IF property \in DOMAIN node THEN node[property] ELSE "none"

SetInputs ==
    {i \in [op : {"set_property"}, node : Nodes, property : {"position"},
            value : RawObjects \cup {Float(3)}, type_hint : SetHints] :
        IsDictionary(i.value)
            <=> ~(i.type_hint = "" /\ Declared(i.node, i.property) \in ScalarTypes)}

CodecInit ==
    /\ input \in RoundTripInputs(MaxNum)
                 \cup DetectInputs(ScalarKeys \cup ObjectKeys)
                 \cup DefaultInputs(Hints)
                 \cup SetInputs
    /\ output = NoOutput
    /\ _busy = FALSE
    /\ _client = NoClient
    /\ _buffer = <<>>
    /\ susp = <<>>
    /\ out = [c \in Conn |-> <<>>]
    /\ wire = [c \in Conn |-> <<>>]
    /\ conns = [c \in Conn |-> "unused"]
    /\ backlog = <<>>
    /\ nsent = 0
    /\ trace = <<>>
    /\ ran = 0
    /\ _server = "listening"
    /\ socket = NoSocket
    /\ connected = FALSE
    /\ responseBuffer = <<>>
    /\ pendingResolve = NoPending
    /\ calls = <<>>
    /\ sock = [c \in Conn |-> "none"]
    /\ rxpos = [c \in Conn |-> 0]
    /\ serial = TRUE
    /\ activeProcess = NoProcess
    /\ projectPath = NoProject
    /\ artifact = [p \in 1..MaxProjects |-> FALSE]
    /\ runs = <<>>
    /\ shutdown = FALSE
    /\ signals = {}
    /\ rxlines = <<>>
    /\ rxwire = <<>>

\* _json_to_variant(_variant_to_json(v), hint)
RoundTrip ==
    /\ input.op = "round trip"
    /\ output = NoOutput
    /\ output' = _json_to_variant(_variant_to_json(input.value), input.type_hint)
    /\ UNCHANGED <<agentVars, _server, ctlVars, runVars, rxlines, rxwire, input, signals>>

\* _json_to_variant(value, type_hint)
Decode ==
    /\ input.op = "decode"
    /\ output = NoOutput
    /\ output' = _json_to_variant(input.value, input.type_hint)
    /\ UNCHANGED <<agentVars, _server, ctlVars, runVars, rxlines, rxwire, input, signals>>

\* the decoding in _cmd_set_property
SetProperty ==
    /\ input.op = "set_property"
    /\ output = NoOutput
    /\ output' = DecodeForSet(input.node, input.property, input.value, input.type_hint)
    /\ UNCHANGED <<agentVars, _server, ctlVars, runVars, rxlines, rxwire, input, signals>>

CodecNext ==
    \/ RoundTrip
    \/ Decode
    \/ SetProperty

CodecSpec == CodecInit /\ [][CodecNext]_vars

\* C26: for every value of a type that has a type hint, decoding its
\* encoding with that hint gives the value back
RoundTripReturnsValue ==
    (input.op = "round trip" /\ output # NoOutput) => output = input.value

\* a Transform3D, which holds a Basis and a Vector3, has made the round trip
RoundTripReturnsValueWitness ==
    /\ input.op = "round trip"
    /\ input.value.type = "Transform3D"
    /\ input.value.basis # IDENTITY
    /\ output = input.value

\* the rules of the decoding without a hint, in their order: the type and
\* whether the object has its shape
Rules(dict) ==
    <<[type |-> "Transform3D", fits |-> {"basis", "origin"} \subseteq DOMAIN dict],
      [type |-> "Color", fits |-> {"r", "g", "b"} \subseteq DOMAIN dict],
      [type |-> "Quaternion", fits |-> {"x", "y", "z", "w"} \subseteq DOMAIN dict],
      [type |-> "AABB", fits |-> /\ {"position", "size"} \subseteq DOMAIN dict
                                 /\ \/ "z" \in DOMAIN dict.position
                                    \/ "z" \in DOMAIN dict.size],
      [type |-> "Rect2", fits |-> {"position", "size"} \subseteq DOMAIN dict],
      [type |-> "Vector3", fits |-> {"x", "y", "z"} \subseteq DOMAIN dict],
      [type |-> "Vector2", fits |-> DOMAIN dict = {"x", "y"}]>>

\* the first rule that fits, 0 when none does
FirstRule(dict) ==
    IF \E i \in 1..7 : Rules(dict)[i].fits
    THEN CHOOSE i \in 1..7 :
             Rules(dict)[i].fits /\ \A j \in 1..(i - 1) : ~Rules(dict)[j].fits
    ELSE 0

\* C27: without a hint a JSON object is decoded as the type of the first rule
\* that fits it, to the value the hinted decoding of that type gives, and is
\* returned unchanged when no rule fits
AutoDetectOrder ==
    (input.op = "decode" /\ input.type_hint = "" /\ output # NoOutput) =>
        IF FirstRule(input.value) = 0
        THEN output = input.value
        ELSE /\ ~IsDictionary(output)
             /\ output.type = Rules(input.value)[FirstRule(input.value)].type
             /\ output = Hinted(input.value, output.type)

\* the three cases the claim names, decoded: x,y,z,w; r,g,b with x,y,z; and
\* x,y with one more key that is not z
AutoDetectOrderWitness ==
    /\ input.op = "decode" /\ input.type_hint = ""
    /\ \/ DOMAIN input.value = {"x", "y", "z", "w"} /\ output.type = "Quaternion"
       \/ DOMAIN input.value = {"r", "g", "b", "x", "y", "z"} /\ output.type = "Color"
       \/ DOMAIN input.value = {"x", "y", "k"} /\ output = input.value

\* the defaults of the claim, as JSON: what a field that is left out stands for
Defaults(type_hint) ==
    CASE type_hint \in {"Vector2", "Vector2i"} -> Zero2
      [] type_hint \in {"Vector3", "Vector3i"} -> Zero3
      [] type_hint = "Color" -> [r |-> Zero, g |-> Zero, b |-> Zero, a |-> One]
      [] type_hint = "Quaternion" -> [x |-> Zero, y |-> Zero, z |-> Zero, w |-> One]
      [] type_hint = "Rect2" -> [position |-> Zero2, size |-> Zero2]
      [] type_hint = "AABB" -> [position |-> Zero3, size |-> Zero3]
      [] type_hint = "Basis" ->
             [x |-> [x |-> One, y |-> Zero, z |-> Zero],
              y |-> [x |-> Zero, y |-> One, z |-> Zero],
              z |-> [x |-> Zero, y |-> Zero, z |-> One]]
      [] type_hint = "Transform2D" ->
             [x |-> [x |-> One, y |-> Zero], y |-> [x |-> Zero, y |-> One],
              origin |-> Zero2]
      [] type_hint = "Transform3D" ->
             [basis |-> [x |-> [x |-> One, y |-> Zero, z |-> Zero],
                         y |-> [x |-> Zero, y |-> One, z |-> Zero],
                         z |-> [x |-> Zero, y |-> Zero, z |-> One]],
              origin |-> Zero3]

\* dict with every field that is left out written out: a field of the value
\* gets its default, a component of a vector that is there gets 0, and a
\* basis that is there and not empty is completed as a Basis
RECURSIVE Complete(_, _)
Complete(dict, defaults) ==
    [key \in DOMAIN defaults |->
        IF key \notin DOMAIN dict THEN defaults[key]
        ELSE IF ~IsDictionary(defaults[key]) THEN dict[key]
        ELSE IF key = "basis"
             THEN IF DOMAIN dict[key] = {} THEN defaults[key]
                  ELSE Complete(dict[key], defaults[key])
             ELSE Complete(dict[key], [c \in DOMAIN defaults[key] |-> Zero])]

\* C28: decoding an object with a hint gives what decoding the object with
\* its missing fields filled in by the defaults gives
MissingFieldsDefault ==
    (input.op = "decode" /\ input.type_hint \in Hints /\ output # NoOutput) =>
        output = Hinted(Complete(input.value, Defaults(input.type_hint)), input.type_hint)

\* decoded: a Color without "a", or a Transform3D whose basis is empty or
\* has its x axis only
MissingFieldsDefaultWitness ==
    /\ input.op = "decode" /\ output # NoOutput
    /\ \/ /\ input.type_hint = "Color"
          /\ DOMAIN input.value = {"r", "g", "b"}
          /\ output.a = Float(2)
       \/ /\ input.type_hint = "Transform3D"
          /\ "basis" \in DOMAIN input.value
          /\ DOMAIN input.value.basis \in {{}, {"x"}}
          /\ output.basis.z = IDENTITY.z

\* C29, as claimed: with a type hint the value is decoded as that type,
\* whatever the declared type of the property and the keys of the object;
\* without one and with a supported declared type it is decoded as the
\* declared type; otherwise by the keys
DecoderOrder ==
    (input.op = "set_property" /\ output # NoOutput) =>
        IF input.type_hint # ""
        THEN ~IsDictionary(output) /\ output.type = input.type_hint
        ELSE IF Declared(input.node, input.property) \in StructuredTypes
             THEN /\ ~IsDictionary(output)
                  /\ output.type = TypeHintOf(Declared(input.node, input.property))
        ELSE IF Declared(input.node, input.property) \in ScalarTypes
             THEN /\ ~IsDictionary(output)
                  /\ output.type = CASE input.node[input.property] = "TYPE_BOOL" -> "bool"
                                     [] input.node[input.property] = "TYPE_INT" -> "int"
                                     [] input.node[input.property] = "TYPE_FLOAT" -> "float"
        ELSE output = AutoDetect(input.value)

(***************************************************************************)
(* call_method.  The agent alone; every line is a call_method command,     *)
(* with a node path that is left out, names a node of the scene or names   *)
(* none, and a method that is left out, is a method of the node or is not. *)
(***************************************************************************)
NodePaths == {"", "/root/Enemy", "/root/Ghost"}
Methods == {"", "take_damage", "missing_fn"}

CallMsg(id, node_path, method) ==
    [id |-> id, kind |-> "object", command |-> "call_method", params |-> "dict",
     arg |-> "ok", frames |-> 0, node_path |-> node_path, method |-> method]

CallSend ==
    \E c \in Conn : \E node_path \in NodePaths : \E method \in Methods :
        /\ nsent < MaxLines
        /\ conns[c] = "open"
        /\ wire' = [wire EXCEPT ![c] = @ \o Encode(CallMsg(nsent + 1, node_path, method))]
        /\ nsent' = nsent + 1
        /\ UNCHANGED <<_busy, _client, _buffer, susp, out, conns, backlog, trace, ran>>
        /\ UNCHANGED <<_server, rxlines, fnVars, signals, ctlVars, runVars>>

CallNext ==
    \/ Process
    \/ ProcessFrame
    \/ ClientConnect
    \/ CallSend
    \/ ClientClose

CallSpec == Init /\ [][CallNext]_vars

\* history: the responses to line id, whatever the connection
Answers(id) == {out[p[1]][p[2]] : p \in Responses(id)}

\* C30: a call_method that names a node of the scene and a method the node
\* does not have is answered with "Method not found: <method> on node
\* <node_path>" only, and one that names no node of the scene with "Node not
\* found: <node_path>" only, whatever method it names; nothing is invoked,
\* and the busy flag is false when the response is written
MethodNotFound ==
    \A i \in DOMAIN trace :
        LET m == trace[i].x[1].m IN
        (trace[i].e = "line" /\ ~trace[i].busy /\ m.node_path # "" /\ m.method # "") =>
            /\ m.node_path \notin DOMAIN Scene =>
                   /\ Answers(m.id) = {[re |-> m.id, kind |-> "error",
                                        msg |-> "Node not found",
                                        node_path |-> m.node_path]}
                   /\ At("callv", m.id) = {}
                   /\ \E k \in At("done", m.id) : ~trace[k].busy
            /\ (m.node_path \in DOMAIN Scene /\ m.method \notin Scene[m.node_path]) =>
                   /\ Answers(m.id) = {[re |-> m.id, kind |-> "error",
                                        msg |-> "Method not found",
                                        method |-> m.method,
                                        node_path |-> m.node_path]}
                   /\ At("callv", m.id) = {}
                   /\ \E k \in At("done", m.id) : ~trace[k].busy

\* line 1 named a method the node lacks and line 2 a node that is not in the
\* scene; both are answered and the flag is false
MethodNotFoundWitness ==
    /\ ~_busy
    /\ \E r \in Answers(1) : r.msg = "Method not found" /\ r.node_path = "/root/Enemy"
    /\ \E r \in Answers(2) : r.msg = "Node not found" /\ r.node_path = "/root/Ghost"
    /\ \A i \in DOMAIN trace : trace[i].e # "callv"

(***************************************************************************)
(* Ordinal correlation.                                                    *)
(***************************************************************************)
\* no timer of a call has fired
NoTimeoutFired == \A i \in CallIds : calls[i].timer # "fired"

\* the controller has made one connection at most, the first
OneConnection == \A c \in Conn : c > 1 => conns[c] = "unused"

\* the calls settled by a response line, up to call i
ResolvedUpTo(i) == {j \in 1..i : calls[j].by \in {"response", "late response"}}

\* C31: while every send was issued after the previous one settled, no timer
\* has fired and the controller has used one connection only, a call that a
\* response line settled holds the response the agent produced for the
\* command of that very call, and the k-th call settled so holds the k-th
\* response line the agent wrote on the connection
OrdinalCorrelation ==
    (serial /\ NoTimeoutFired /\ OneConnection) =>
        \A i \in CallIds :
            calls[i].by \in {"response", "late response"} =>
                LET k == Cardinality(ResolvedUpTo(i)) IN
                /\ calls[i].state = "resolved"
                /\ calls[i].result.re = i
                /\ k <= Len(out[1])
                /\ calls[i].result = out[1][k]

\* two calls, one after the other, each settled by the response to its own
\* command; no timer fired
OrdinalCorrelationWitness ==
    /\ serial /\ NoTimeoutFired /\ OneConnection
    /\ Len(calls) = 2
    /\ calls[1].by = "response" /\ calls[1].result.re = 1
    /\ calls[2].by = "response" /\ calls[2].result.re = 2

(***************************************************************************)
(* wait.  The agent alone; every line is a wait command, with a frame      *)
(* count below, at and above one.                                          *)
(***************************************************************************)
\* the "frames" parameter of the wait commands sent
WaitFrames == (0 - 1)..(MaxFrames + 1)

WaitTemplates == {<<"object", "wait", "dict", "ok", n>> : n \in WaitFrames}

WaitSend == Send(MaxLines, WaitTemplates)

WaitNext ==
    \/ Process
    \/ ProcessFrame
    \/ ClientConnect
    \/ WaitSend
    \/ ClientClose

WaitSpec == Init /\ [][WaitNext]_vars

\* history: the events from position i on that come before the handler of
\* line id went through _send_response
Until(i, id) ==
    {j \in DOMAIN trace : j > i /\ \A k \in At("done", id) : j < k}

\* C32: a wait command that is accepted with frames = N >= 1 has its
\* response written by the N-th emission of process_frame after its handler
\* started and not before, the response is {success, waited_frames: N}, the
\* busy flag is true from the start of the handler until then, and every
\* line dispatched in between is answered with the busy error; with N <= 0
\* the response is written in the run of _process that dispatched the line,
\* with no frame awaited
WaitsNFrames ==
    \A i \in DOMAIN trace :
        LET m == trace[i].x[1].m
            id == trace[i].id
            N == m.frames
            between == Until(i, id)
        IN  (trace[i].e = "line" /\ ~trace[i].busy) =>
                /\ At("start", id) = {i + 1}
                /\ Answers(id) \subseteq {WaitedFrames(m)}
                /\ N <= 0 =>
                      /\ At("done", id) = {i + 2}
                      /\ At("frame", id) = {}
                      /\ ~trace[i + 2].busy
                      /\ trace[i + 2].x # NoClient => Answers(id) # {}
                /\ N >= 1 =>
                      /\ Cardinality(At("frame", id)) <= N
                      /\ At("frame", id) \subseteq between
                      /\ \A j \in between : trace[j].busy
                      /\ \A j \in between :
                            trace[j].e = "line" =>
                                /\ trace[j + 1].e = "busy"
                                /\ At("start", trace[j].id) = {}
                      /\ \A k \in At("done", id) :
                            /\ Cardinality(At("frame", id)) = N
                            /\ trace[k - 1].e = "frame" /\ trace[k - 1].id = id
                            /\ ~trace[k].busy
                      /\ At("done", id) = {} => (_busy /\ Answers(id) = {})
                      /\ Cardinality(At("done", id)) <= 1

\* a wait of more than one frame has been answered after that many frames,
\* and the line that came in between was rejected as busy
WaitsNFramesWitness ==
    \E i \in DOMAIN trace :
        LET m == trace[i].x[1].m IN
        /\ trace[i].e = "line" /\ ~trace[i].busy
        /\ m.frames = MaxFrames + 1
        /\ Answers(m.id) = {WaitedFrames(m)}
        /\ Cardinality(At("frame", m.id)) = m.frames
        /\ \E j \in DOMAIN trace :
              /\ j > i /\ trace[j].e = "busy"
              /\ \A k \in At("done", m.id) : j < k

(***************************************************************************)
(* click and key_press.  The agent alone; the lines are click commands and *)
(* key_press commands by key or by action, pressed or released.            *)
(***************************************************************************)
\* a key_press command: by is "key", "action" or "none" (neither is given),
\* arg is "err" for a key name _string_to_keycode does not know
KeyMsg(id, by, pressed, arg) ==
    [id |-> id, kind |-> "object", command |-> "key_press", params |-> "dict",
     arg |-> arg, frames |-> 0, by |-> by, pressed |-> pressed]

InputLines(id) ==
    {Msg(id, "object", "click", "dict", "ok", 0)}
    \cup {KeyMsg(id, by, pressed, "ok") : by \in {"key", "action"}, pressed \in BOOLEAN}
    \cup {KeyMsg(id, "key", TRUE, "err"), KeyMsg(id, "none", TRUE, "ok")}

InputSend ==
    \E c \in Conn : \E m \in InputLines(nsent + 1) :
        /\ nsent < MaxLines
        /\ conns[c] = "open"
        /\ wire' = [wire EXCEPT ![c] = @ \o Encode(m)]
        /\ nsent' = nsent + 1
        /\ UNCHANGED <<_busy, _client, _buffer, susp, out, conns, backlog, trace, ran>>
        /\ UNCHANGED <<_server, rxlines, fnVars, signals, ctlVars, runVars>>

InputNext ==
    \/ Process
    \/ ProcessFrame
    \/ ClientConnect
    \/ InputSend
    \/ ClientClose

InputSpec == Init /\ [][InputNext]_vars

\* a click, or a key_press of a known key with pressed true
PressAndRelease(m) ==
    \/ m.command = "click"
    \/ /\ m.command = "key_press"
       /\ KeyBy(m) = "key" /\ KeyPressed(m) /\ m.arg = "ok"

\* what the command injects
Device(m) == IF m.command = "click" THEN "mouse" ELSE "key"

\* C33: an accepted click, or key_press by key with pressed true, injects
\* its press event when its handler starts, awaits one emission of
\* process_frame, injects the release of the same button or key in the step
\* of that emission and then writes its success response; the busy flag is
\* true from the press until the response, every line dispatched in between
\* gets the busy error, and no handler of a later line starts before the
\* release has been injected
PressThenRelease ==
    \A i \in DOMAIN trace :
        LET m == trace[i].x[1].m
            id == trace[i].id
            between == Until(i, id)
        IN  (trace[i].e = "line" /\ ~trace[i].busy /\ PressAndRelease(m)) =>
                /\ At("start", id) = {i + 1}
                /\ At("press", id) = {i + 2}
                /\ trace[i + 2].x = Device(m) /\ trace[i + 2].busy
                /\ At("frame", id) \subseteq between
                /\ At("release", id) \subseteq between
                /\ \A j \in between : trace[j].busy
                /\ \A j \in between :
                      trace[j].e = "line" =>
                          /\ trace[j + 1].e = "busy"
                          /\ At("start", trace[j].id) = {}
                /\ \A j \in DOMAIN trace :
                      (trace[j].e = "start" /\ j > i + 1) =>
                          \E r \in At("release", id) : r < j
                /\ \A k \in At("done", id) :
                      /\ trace[k - 2].e = "frame" /\ trace[k - 2].id = id
                      /\ trace[k - 1].e = "release" /\ trace[k - 1].id = id
                      /\ trace[k - 1].x = Device(m)
                      /\ Cardinality(At("frame", id)) = 1
                      /\ Cardinality(At("release", id)) = 1
                      /\ ~trace[k].busy
                      /\ Answers(id) \subseteq {Resp(id, "success", m.command)}
                      /\ trace[k].x # NoClient => Answers(id) # {}
                /\ At("done", id) = {} =>
                      /\ _busy
                      /\ Answers(id) = {}
                      /\ At("release", id) = {}
                /\ Cardinality(At("done", id)) <= 1

\* a click and then a key_press by key, each answered after its press, one
\* frame and its release
PressThenReleaseWitness ==
    /\ \E i \in At("press", 1) : trace[i].x = "mouse"
    /\ \E i \in At("release", 1) : trace[i].x = "mouse"
    /\ \E i \in At("press", 2) : trace[i].x = "key"
    /\ \E i \in At("release", 2) : trace[i].x = "key"
    /\ Answers(1) = {Resp(1, "success", "click")}
    /\ Answers(2) = {Resp(2, "success", "key_press")}

(***************************************************************************)
(* connect_signal and disconnect_signal.  The agent alone; the lines are   *)
(* the two commands with parameters that are right, and with one of them   *)
(* left out or naming nothing of the scene.                                *)
(***************************************************************************)
SignalMsg(id, command, node_path, signal_name, target_path, method) ==
    [id |-> id, kind |-> "object", command |-> command, params |-> "dict",
     arg |-> "ok", frames |-> 0, node_path |-> node_path,
     signal_name |-> signal_name, target_path |-> target_path, method |-> method]

\* the parameters sent: those of a connection that can be made, and each of
\* them replaced in turn
SignalParams ==
    {<<"/root/Enemy", "died", "/root/Enemy", "take_damage">>,
     <<"/root/Ghost", "died", "/root/Enemy", "take_damage">>,
     <<"/root/Enemy", "vanished", "/root/Enemy", "take_damage">>,
     <<"/root/Enemy", "died", "/root/Ghost", "take_damage">>,
     <<"/root/Enemy", "died", "/root/Enemy", "missing_fn">>,
     <<"/root/Enemy", "died", "/root/Enemy", "">>}

SignalSend ==
    \E c \in Conn : \E command \in {"connect_signal", "disconnect_signal"} :
      \E p \in SignalParams :
        /\ nsent < MaxLines
        /\ conns[c] = "open"
        /\ wire' = [wire EXCEPT ![c] = @ \o
                       Encode(SignalMsg(nsent + 1, command, p[1], p[2], p[3], p[4]))]
        /\ nsent' = nsent + 1
        /\ UNCHANGED <<_busy, _client, _buffer, susp, out, conns, backlog, trace, ran>>
        /\ UNCHANGED <<_server, rxlines, fnVars, signals, ctlVars, runVars>>

SignalNext ==
    \/ Process
    \/ ProcessFrame
    \/ ClientConnect
    \/ SignalSend

SignalSpec == Init /\ [][SignalNext]_vars

\* history: the positions at which a handler of the two commands found the
\* connection set
Handled == {i \in DOMAIN trace : trace[i].e = "signals"}

\* the connection set the handler noted at position i left behind: what the
\* next such handler found, or what the set is now
After(i) ==
    IF \E j \in Handled : j > i
    THEN trace[CHOOSE j \in Handled : j > i /\ \A k \in Handled : k > i => j <= k].x
    ELSE signals

\* the command the handler noted at position i was given
Given(i) == trace[i - 2].x[1].m

NotFoundErrors ==
    {"Source node not found", "Target node not found", "Signal not found",
     "Method not found"}

\* C34: connect_signal for a connection that exists is answered "Signal
\* already connected" and leaves the set of connections as it was;
\* disconnect_signal for a connection that does not exist, between nodes of
\* the scene, is answered "Signal is not connected" and leaves the set as it
\* was; a command answered with any error leaves the set as it was; a
\* successful connect_signal adds its connection and nothing else, a
\* successful disconnect_signal removes its connection and nothing else, so
\* that the second after the first, with the same parameters, leaves the set
\* the first had found
SignalsConsistent ==
    \A i \in Handled :
        LET m == Given(i)
            id == trace[i].id
            before == trace[i].x
            found == /\ m.node_path \in DOMAIN Scene
                     /\ m.target_path \in DOMAIN Scene
                     /\ m.signal_name # "" /\ m.method # ""
        IN  /\ Cardinality(Answers(id)) <= 1
            /\ (m.command = "connect_signal" /\ Connection(m) \in before) =>
                  /\ Answers(id) \subseteq {Resp(id, "error", "Signal already connected")}
                  /\ After(i) = before
            /\ (m.command = "disconnect_signal" /\ found /\ Connection(m) \notin before) =>
                  /\ Answers(id) \subseteq {Resp(id, "error", "Signal is not connected")}
                  /\ After(i) = before
            /\ \A r \in Answers(id) :
                  /\ r.kind = "error" => After(i) = before
                  /\ r.msg \in NotFoundErrors => After(i) = before
                  /\ (r.kind = "success" /\ m.command = "connect_signal") =>
                        /\ Connection(m) \notin before
                        /\ After(i) = before \cup {Connection(m)}
                  /\ (r.kind = "success" /\ m.command = "disconnect_signal") =>
                        /\ Connection(m) \in before
                        /\ After(i) = before \ {Connection(m)}
            /\ \A j \in Handled :
                  ( /\ j > i
                    /\ \A k \in Handled : k > i => j <= k
                    /\ m.command = "connect_signal"
                    /\ Given(j).command = "disconnect_signal"
                    /\ Connection(Given(j)) = Connection(m)
                    /\ \E r \in Answers(id) : r.kind = "success" ) =>
                        /\ After(j) = before
                        /\ Answers(trace[j].id) \subseteq
                               {Resp(trace[j].id, "success", "disconnect_signal")}

\* a connection was made and then removed: the set is empty as it was at
\* first
SignalsConsistentWitness ==
    /\ Answers(1) = {Resp(1, "success", "connect_signal")}
    /\ Answers(2) = {Resp(2, "success", "disconnect_signal")}
    /\ signals = {}

(***************************************************************************)
(* Responses and the connection of their command                           *)
(***************************************************************************)
\* history: line id was read from connection c
ReceivedOn(id, c) == \E i \in At("line", id) : trace[i].client = c

\* C35, as claimed: every response line on a connection answers a line that
\* was read from that connection
ResponseOnOwnConnection ==
    \A c \in Conn : \A p \in DOMAIN out[c] : ReceivedOn(out[c][p].re, c)

(***************************************************************************)
(* More than one socket.  connectToGame is called by every run_project;    *)
(* the callback of a later call stores its socket over the one stored, be  *)
(* that one destroyed by disconnectFromGame or still open.                 *)
(***************************************************************************)
connectToGameAgain == ConnectToGame(MaxPeers)

ReconnectNext ==
    \/ Process
    \/ ProcessFrame
    \/ connectToGameAgain
    \/ disconnectFromGame
    \/ sendGameCommand
    \/ OnTimeout
    \/ OnData
    \/ OnClose

ReconnectSpec == Init /\ [][ReconnectNext]_vars

\* C36, as claimed: the close handler of a socket that is not the stored one
\* leaves connected, the stored socket and the pending request as they are
StaleCloseIgnored ==
    [][\A c \in Conn :
          (sock[c] # "closed" /\ sock'[c] = "closed" /\ socket # c) =>
              /\ connected' = connected
              /\ socket' = socket
              /\ pendingResolve' = pendingResolve
              /\ calls' = calls]_vars

(***************************************************************************)
(* The exit of a superseded process                                        *)
(***************************************************************************)
\* C37, as claimed: when the exit event of a process is handled while
\* activeProcess holds the process of a later run, the connection, the
\* pending request, the artifact and the stored project path of that later
\* run are left as they are
StaleExitIgnored ==
    [][\A n \in 1..MaxRuns :
          (ExitStep(n) /\ activeProcess # NoProcess /\ activeProcess # n) =>
              /\ socket' = socket
              /\ connected' = connected
              /\ sock' = sock
              /\ pendingResolve' = pendingResolve
              /\ calls' = calls
              /\ artifact' = artifact
              /\ projectPath' = projectPath
              /\ activeProcess' = activeProcess]_vars

(***************************************************************************)
(* A client that goes away while its handler is suspended                  *)
(***************************************************************************)
\* frames keep coming while clients come and go
EvictFairSpec == EvictSpec /\ WF_vars(ProcessFrame)

\* the handler of line id is parked and the connection the line was read
\* from is not the client any more: it was found disconnected, or replaced
Orphaned(id) == Suspended(id) /\ ~ReceivedOn(id, _client)

\* history: the handler of line id was resumed after its client had gone, and
\* went through _send_response at position k
FinishedOrphaned(id, k) ==
    /\ k \in At("done", id)
    /\ At("frame", id) # {}
    /\ ~ReceivedOn(id, trace[k].client)

\* C38: a handler that is suspended when its client is found disconnected or
\* is replaced is resumed all the same and goes through _send_response: the
\* busy flag is false from then on, nothing is written when no client is
\* connected at that moment, and the next line the agent dispatches, from
\* whichever client, is accepted and not rejected as busy
OrphanedHandlerCompletes ==
    /\ \A id \in 1..MaxPeerLines :
          Orphaned(id) ~> (\E k \in DOMAIN trace : FinishedOrphaned(id, k))
    /\ [](\A id \in 1..MaxPeerLines : \A k \in DOMAIN trace :
             FinishedOrphaned(id, k) =>
                 /\ ~trace[k].busy
                 /\ trace[k].client = NoClient => Responses(id) = {}
                 /\ Cardinality(Responses(id)) <= 1
                 /\ \A j \in DOMAIN trace :
                       ( /\ j > k
                         /\ trace[j].e = "line"
                         /\ \A i \in (k + 1)..(j - 1) : trace[i].e # "line" ) =>
                           ~trace[j].busy
                 /\ (\A j \in DOMAIN trace : j > k => trace[j].e # "line") => ~_busy)

\* the first client left while its wait was suspended, the handler finished
\* with no client and wrote nothing, and the line of the client that
\* connected next was accepted and answered
OrphanedHandlerCompletesWitness ==
    \E k \in DOMAIN trace :
        /\ FinishedOrphaned(1, k)
        /\ trace[k].client = NoClient
        /\ Responses(1) = {}
        /\ \E j \in At("line", 2) : j > k /\ ~trace[j].busy /\ trace[j].client = 2
        /\ \E p \in Responses(2) : p[1] = 2 /\ out[2][p[2]].kind = "success"

(***************************************************************************)
(* The data handler of the controller on lines JSON.parse rejects.  The    *)
(* peer writes two lines; each is the JSON text of a response or a text    *)
(* that is not JSON.  The request of one sendGameCommand is pending, its   *)
(* timer is armed, and the game may quit.                                  *)
(***************************************************************************)
\* a character that makes the text around it invalid JSON
Garbage == [part |-> "?"]

ParseShapes == [bad : [1..2 -> BOOLEAN]]

\* the i-th text the peer writes
Text(shape, i) ==
    IF shape.bad[i]
    THEN <<HeadByte(FrameResponse(i)), Garbage, TailByte(FrameResponse(i))>>
    ELSE <<HeadByte(FrameResponse(i)), TailByte(FrameResponse(i))>>

ParseInit ==
    /\ input \in ParseShapes
    /\ output = NoOutput
    /\ _busy = FALSE
    /\ _client = 1
    /\ _buffer = <<>>
    /\ susp = <<>>
    /\ out = [c \in Conn |-> <<>>]
    /\ wire = [c \in Conn |-> <<>>]
    /\ conns = [c \in Conn |-> IF c = 1 THEN "open" ELSE "unused"]
    /\ backlog = <<>>
    /\ nsent = 1
    /\ trace = <<>>
    /\ ran = 0
    /\ _server = "listening"
    /\ socket = 1
    /\ connected = TRUE
    /\ responseBuffer = <<>>
    /\ pendingResolve = 1
    /\ calls = <<Call(FrameCommand(1), "pending", NoResult, "armed", 0, "none")>>
    /\ sock = [c \in Conn |-> IF c = 1 THEN "open" ELSE "none"]
    /\ rxpos = [c \in Conn |-> 0]
    /\ serial = TRUE
    /\ activeProcess = NoProcess
    /\ projectPath = NoProject
    /\ artifact = [p \in 1..MaxProjects |-> FALSE]
    /\ runs = <<>>
    /\ shutdown = FALSE
    /\ signals = {}
    /\ rxlines = <<>>
    /\ rxwire = to_utf8_buffer(Text(input, 1) \o <<NL>> \o Text(input, 2) \o <<NL>>)

ParseNext ==
    \/ DataChunk
    \/ OnTimeout
    \/ _exit_tree
    \/ OnClose

ParseSpec == ParseInit /\ [][ParseNext]_vars

\* a timer that is armed and not cleared fires
ParseFairSpec == ParseSpec /\ WF_vars(OnTimeout)

\* history: the lines found so far that JSON.parse accepts
Parsed == SelectSeq(rxlines, ParseOk)

\* C39: a line that JSON.parse rejects while a request is pending does not
\* settle the call: as long as no parseable line, no timeout and no close has
\* come the request stays in pendingResolve with its timer armed; a call
\* settled by a line is settled with the first parseable one; and the call
\* is settled in the end
UnparsedLineKeepsPending ==
    /\ [](/\ Parsed = <<>> => calls[1].by \in {"none", "timeout", "close"}
          /\ calls[1].by = "none" =>
                 /\ pendingResolve = 1
                 /\ calls[1].state = "pending"
                 /\ calls[1].timer = "armed"
                 /\ calls[1].attempts = 0
          /\ calls[1].by = "response" =>
                 /\ Parsed # <<>>
                 /\ calls[1].result = Parsed[1][1].m
                 /\ calls[1].timer = "cleared"
          /\ calls[1].by = "timeout" => calls[1].result = TimedOut
          /\ calls[1].by = "close" => calls[1].result = ConnectionClosed)
    /\ <>(calls[1].state # "pending")

\* the first line was rejected by JSON.parse and the second line settled
\* the call
UnparsedLineKeepsPendingWitness ==
    /\ Len(rxlines) = 2
    /\ ~ParseOk(rxlines[1])
    /\ ParseOk(rxlines[2])
    /\ calls[1].by = "response"
    /\ calls[1].result = FrameResponse(2)
    /\ calls[1].attempts = 1

(***************************************************************************)
(* Clients that leave a line unfinished.  Connection c writes message c    *)
(* and nothing else: the whole line, or only the first byte of its text.   *)
(* It may then close, or be replaced by the next connection.               *)
(***************************************************************************)
\* connection c writes the head of its line, or all of it
TornSend ==
    \E c \in Conn : \E t \in PeerTemplates : \E whole \in BOOLEAN :
        LET m == Msg(c, t[1], t[2], t[3], t[4], t[5])
        IN  /\ nsent = c - 1
            /\ nsent < MaxPeers
            /\ conns[c] = "open"
            /\ wire' = [wire EXCEPT ![c] = @ \o (IF whole THEN Encode(m)
                                                          ELSE <<HeadByte(m)>>)]
            /\ nsent' = c
            /\ UNCHANGED <<_busy, _client, _buffer, susp, out, conns, backlog, trace, ran>>
            /\ UNCHANGED <<_server, rxlines, fnVars, signals, ctlVars, runVars>>

TornNext ==
    \/ Process
    \/ ProcessFrame
    \/ PeerConnect
    \/ TornSend
    \/ ClientClose

TornSpec == Init /\ [][TornNext]_vars

\* the connection a byte of a JSON text was written on
WrittenOn(b) == b.m.id

\* C40: the receive buffer holds only bytes its present client wrote, and is
\* empty when there is no client; it is empty after a run of _process that
\* accepted a connection or found the client disconnected, but for what that
\* run read from the new client; and every line dispatched is the whole text
\* of one message, read from the connection that wrote it
BufferOfOneClient ==
    /\ [](/\ _client = NoClient => _buffer = <<>>
          /\ \A j \in DOMAIN _buffer : WrittenOn(_buffer[j]) = _client
          /\ \A i \in DOMAIN trace :
                trace[i].e = "line" =>
                    \E m \in {trace[i].x[1].m} :
                        /\ trace[i].x = <<HeadByte(m), TailByte(m)>>
                        /\ WrittenOn(trace[i].x[1]) = trace[i].client)
    /\ [][_client' # _client =>
              \A j \in DOMAIN _buffer' :
                  \E p \in DOMAIN wire[_client'] : wire[_client'][p] = _buffer'[j]]_vars

\* the first client wrote the head of a line and closed, the agent read the
\* head and then found the client gone; the line of the second client was
\* dispatched as it was written
BufferOfOneClientWitness ==
    /\ nsent = 2
    /\ conns[1] = "closed"
    /\ wire[1] = <<>>
    /\ At("line", 1) = {}
    /\ _client = 2
    /\ \E i \in At("line", 2) :
           /\ trace[i].client = 2
           /\ trace[i].x = <<HeadByte(trace[i].x[1].m), TailByte(trace[i].x[1].m)>>

====
